---------------------------- MODULE Spec2Model ----------------------------
(***************************************************************************)
(* IMU_Measurement: the ESP32-C6 firmware that frames the accelerations of *)
(* IMU_NUM LSM6DS3 sensors and streams them over the serial link           *)
(* (lsm6ds3_esp32c6 sketch, LSM6DS3 driver), and the Processing host that  *)
(* reads the stream (measurement_LSM6DS3TR.pde).                           *)
(*                                                                         *)
(* Buffers are functions over 0..len-1 so that indexes read as in the      *)
(* source; what goes over a serial link is a sequence of bytes 0..255.     *)
(***************************************************************************)
EXTENDS Integers, Sequences, FiniteSets, TLC

(***************************************************************************)
(* Bounds of the model.                                                    *)
(***************************************************************************)
\* Sensors on the bus. The sketch is built with 7 (and the host with
\* SENSOR_NUM = 7); every array and loop of both programs is sized by it.
IMU_NUM == 3
\* Invocations of the timer callback that are followed.
MaxTicks == 3
\* Invocations followed when the callback runs alone over the wide range of
\* sensor counts.
MaxEncTicks == 1
\* Command bytes the host sends that are followed.
MaxCmds == 2
\* WHO_AM_I reads that fail (and are reported on the serial link).
MaxFaults == 1

(***************************************************************************)
(* Program constants of the firmware.                                      *)
(***************************************************************************)
HEADER == 127
FOOTER == 254
ACC_HEADER == 3
ACC_CHECKSUM_LEN == 2
ACC_FOOTER == 1
DATA_LEN == ACC_HEADER + 6 * IMU_NUM + ACC_CHECKSUM_LEN + ACC_FOOTER

\* uint8_t CS_PINS[IMU_NUM]: the chip-select pin of sensor i (D0..D6).
CS_PINS == <<0, 1, 2, 21, 22, 23, 16>>
CsPin(i) == CS_PINS[i + 1]

\* const uint8_t IMU_CS_3 = 2
IMU_CS_3 == 2
\* LTC1660 dac(IMU_CS_3): the chip-select (CS/LD) pin of the DAC.  setup()
\* calls dac.begin(), which drives the pin high; loop() makes no DAC
\* transaction (its writeDAC call is commented out).
dac_csPin == IMU_CS_3

WHO_AM_I_OK == 106
\* begin(ACC_ODR_1660Hz, ACC_FS_16G, ACC_BW_400Hz, GYR_ODR_416Hz, GYR_FS_2000DPS)
ACC_ODR_1660Hz == 128
ACC_FS_16G == 4
ACC_BW_400Hz == 0
GYR_ODR_416Hz == 96
GYR_FS_2000DPS == 12
ACC_FS_2G == 0
GYR_FS_245DPS == 0
CTRL3_BDU_IFINC == 68

\* The command bytes: 's', 'e', 'r'.
CMD_S == 115
CMD_E == 101
CMD_R == 114
\* The bytes the host may send: the commands and a byte that is none ('x').
Commands == {CMD_S, CMD_E, CMD_R, 120}

(***************************************************************************)
(* Fixed-width integer arithmetic.                                         *)
(***************************************************************************)
Sensors == 0 .. (IMU_NUM - 1)

\* The value of an integer as uint16_t.
U16(x) == x % 65536
\* The value of a 16-bit pattern as int16_t.
Int16(u) == IF u % 65536 >= 32768 THEN (u % 65536) - 65536 ELSE u % 65536
\* (v >> 8) & 0xFF and v & 0xFF of a 16-bit value (signed or not).
HiByte(v) == (U16(v) \div 256) % 256
LoByte(v) == U16(v) % 256

\* uint16_t seq = g_seq++ : the counter after the post-increment.
SeqIncrementWide(s) == s + 1
SeqIncrement(s) == (s + 1) % 65536

(***************************************************************************)
(* The sensor side of readAccelRaw: OUTX_L_XL..OUTZ_H_XL hold the three    *)
(* counts low byte first; the driver reassembles them as int16_t.          *)
(***************************************************************************)
OutRegs(t) ==
  [k \in 0 .. 5 |-> IF k % 2 = 0 THEN LoByte(t[(k \div 2) + 1])
                                 ELSE HiByte(t[(k \div 2) + 1])]

readAccelRaw(buf) ==
  << Int16(buf[1] * 256 + buf[0]),
     Int16(buf[3] * 256 + buf[2]),
     Int16(buf[5] * 256 + buf[4]) >>

\* Counts a sensor may present: both ends of int16_t, low bytes >= 0x80,
\* bytes equal to the header and footer constants.
WideTriples == { <<100, -100, 16384>>, <<0, 0, 0>>,
                 <<-32768, 32767, -129>>, <<255, -2, 127>> }
\* The acceleration at sensor i during invocation n of the timer callback,
\* for the runs that follow the interleaving of callback and command loop.
Signal(n, i) ==
  LET k == (n + i) % 4
  IN IF k = 0 THEN <<0, 0, 0>>
     ELSE IF k = 1 THEN <<100, -100, 16384>>
     ELSE IF k = 2 THEN <<-32768, 32767, -129>>
     ELSE <<255, -2, 127>>

(***************************************************************************)
(* calcChecksum and the pieces of the frame sendData builds.               *)
(***************************************************************************)
RECURSIVE SumBytes(_, _)
SumBytes(buf, len) ==
  IF len = 0 THEN 0 ELSE SumBytes(buf, len - 1) + buf[len - 1]

calcChecksum8(buf, len) == SumBytes(buf, len) % 256
calcChecksum(buf, len) == SumBytes(buf, len) % 65536

\* send_data[0] = HEADER; send_data[1..2] = seq, big-endian.
PutHeaderSeq(buf, seq) ==
  [buf EXCEPT ![0] = HEADER, ![1] = HiByte(seq), ![2] = LoByte(seq)]

\* send_data[base .. base+5] = ax, ay, az of sensor i, big-endian.
PutSensorLittleEndian(buf, i, t) ==
  LET base == ACC_HEADER + i * 6
  IN [buf EXCEPT ![base + 0] = LoByte(t[1]), ![base + 1] = HiByte(t[1]),
                 ![base + 2] = LoByte(t[2]), ![base + 3] = HiByte(t[2]),
                 ![base + 4] = LoByte(t[3]), ![base + 5] = HiByte(t[3])]
PutSensor(buf, i, t) ==
  LET base == ACC_HEADER + i * 6
  IN [buf EXCEPT ![base + 0] = HiByte(t[1]), ![base + 1] = LoByte(t[1]),
                 ![base + 2] = HiByte(t[2]), ![base + 3] = LoByte(t[2]),
                 ![base + 4] = HiByte(t[3]), ![base + 5] = LoByte(t[3])]

payload_end == ACC_HEADER + 6 * IMU_NUM

\* checksum over [0, payload_end), big-endian, then the footer.
PutTrailer(buf) ==
  LET checksum == calcChecksum(buf, payload_end)
  IN [buf EXCEPT ![payload_end + 0] = HiByte(checksum),
                 ![payload_end + 1] = LoByte(checksum),
                 ![payload_end + 2] = FOOTER]

\* The bytes Serial.write(buf, len) puts on the link.
WriteBytesShort(buf, len) == [k \in 1 .. (len - 1) |-> buf[k - 1]]
WriteBytes(buf, len) == [k \in 1 .. len |-> buf[k - 1]]

\* Serial.print("WHO_AM_I mismatch: ")
MismatchText ==
  << 87, 72, 79, 95, 65, 77, 95, 73, 32,
     109, 105, 115, 109, 97, 116, 99, 104, 58, 32 >>
\* Serial.println(whoami, HEX): upper-case digits, no leading zero, CR LF.
HexDigit(d) == IF d < 10 THEN 48 + d ELSE 55 + d
PrintlnHex(v) ==
  (IF v < 16 THEN << HexDigit(v) >>
             ELSE << HexDigit(v \div 16), HexDigit(v % 16) >>) \o << 13, 10 >>

\* What WHO_AM_I may read: the LSM6DS3's 0x6A, or 0xFF from a silent bus.
WhoAmIReplies == {WHO_AM_I_OK, 255}

(***************************************************************************)
(* State of the firmware.                                                  *)
(***************************************************************************)
VARIABLES
  active,      \* bool active
  g_seq,       \* volatile uint16_t g_seq
  send_data,   \* uint8_t send_data[DATA_LEN]
  tx,          \* the calls of Serial.write/print so far: [src, bytes]
  rx,          \* command bytes received and not yet read by loop()
  isr_pc,      \* where the timer callback sendData is
  isr_i,       \* its loop index i
  isr_raw,     \* what readAccelRaw returned so far in this invocation
  reads,       \* isr_raw of every invocation that wrote its frame
  loop_pc,     \* where loop() is
  loop_i,      \* initializeSensors' loop index i
  loop_reg,    \* which of the three control registers begin() writes next
  whoami,      \* begin()'s local whoami
  begin_ret,   \* what the last call of begin() returned
  accelScale,  \* LSM6DS3::_accelScale of each sensor object
  gyroScale,   \* LSM6DS3::_gyroScale of each sensor object
  regs,        \* CTRL1_XL, CTRL2_G, CTRL3_C of each sensor chip
  cs_low,      \* the chip-select pins that are driven low
  ticks,       \* invocations of sendData so far
  ncmds,       \* command bytes sent by the host so far
  nfaults,     \* WHO_AM_I reads that failed so far
  isSleeping,  \* LTC1660::_isSleeping of the dac object
  dac_words,   \* the 16-bit words sendWord has clocked into the DAC so far
  dac_op,      \* the LTC1660 operation called last
  ndac         \* LTC1660 operations called so far

fwVars == << active, g_seq, send_data, tx, rx, isr_pc, isr_i, isr_raw, reads,
             loop_pc, loop_i,
             loop_reg, whoami, begin_ret, accelScale, gyroScale, regs, cs_low,
             ticks, ncmds, nfaults, isSleeping, dac_words, dac_op, ndac >>
\* The dac object and what it has sent.
dacVars == << isSleeping, dac_words, dac_op, ndac >>

ZeroBuf == [k \in 0 .. (DATA_LEN - 1) |-> 0]

\* The whole frame of one invocation that reads `samples` (a function on
\* Sensors) with sequence number seq.
RECURSIVE PutSensors(_, _, _)
PutSensors(buf, samples, n) ==
  IF n = 0 THEN buf
  ELSE PutSensor(PutSensors(buf, samples, n - 1), n - 1,
                 readAccelRaw(OutRegs(samples[n - 1])))
EncodeFrame(seq, samples) ==
  PutTrailer(PutSensors(PutHeaderSeq(ZeroBuf, seq), samples, IMU_NUM))

\* A sensor object after a begin() that succeeded, and one after the
\* constructor only (begin() failed in setup()).
RegsConfigured2G ==
  << ACC_ODR_1660Hz + ACC_FS_2G + ACC_BW_400Hz,
     GYR_ODR_416Hz + GYR_FS_2000DPS,
     CTRL3_BDU_IFINC >>
RegsConfigured ==
  << ACC_ODR_1660Hz + ACC_FS_16G + ACC_BW_400Hz,
     GYR_ODR_416Hz + GYR_FS_2000DPS,
     CTRL3_BDU_IFINC >>
RegsPowerOn == << 0, 0, 0 >>

\* The firmware between two invocations of sendData, after setup() and n
\* frames of a resting sensor; tx starts empty there. g_seq is 0 and
\* send_data zero on a fresh boot (n = 0). oks: the sets of sensors whose
\* begin() in setup() may have succeeded.
FwAfter(n, a, oks) ==
  /\ active = a
  /\ g_seq = n % 65536
  /\ send_data = IF n = 0 THEN ZeroBuf
                 ELSE EncodeFrame((n - 1) % 65536, [i \in Sensors |-> <<0, 0, 0>>])
  /\ tx = << >>
  /\ isr_raw = << >>
  /\ reads = << >>
  /\ rx = << >>
  /\ isr_pc = "idle"
  /\ isr_i = 0
  /\ loop_pc = "poll"
  /\ loop_i = 0
  /\ loop_reg = 0
  /\ whoami = 0
  /\ \E ok \in oks :
       /\ accelScale = [i \in Sensors |-> IF i \in ok THEN ACC_FS_16G ELSE ACC_FS_2G]
       /\ gyroScale = [i \in Sensors |-> IF i \in ok THEN GYR_FS_2000DPS ELSE GYR_FS_245DPS]
       /\ regs = [i \in Sensors |-> IF i \in ok THEN RegsConfigured ELSE RegsPowerOn]
       /\ begin_ret = ((IMU_NUM - 1) \in ok)
  /\ cs_low = {}
  /\ ticks = 0
  /\ ncmds = 0
  /\ nfaults = 0
  /\ isSleeping = FALSE
  /\ dac_words = << >>
  /\ dac_op = "begin"
  /\ ndac = 0


(***************************************************************************)
(* The timer callback sendData. It runs to completion once entered: the    *)
(* command loop advances only while isr_pc = "idle". Each SPI transaction  *)
(* is two steps, chip-select low and transfer with chip-select high again. *)
(***************************************************************************)
isrLocals == << isr_pc, isr_i, isr_raw, reads >>
loopLocals == << loop_pc, loop_i, loop_reg, whoami, begin_ret >>
sensorState == << accelScale, gyroScale, regs >>

\* if (!active) return; otherwise the header and the sequence number.
\* limit: the invocations that are followed.
sendData_enter_eager(limit) ==
  /\ isr_pc = "idle"
  /\ ticks < limit
  /\ ticks' = ticks + 1
  /\ g_seq' = SeqIncrement(g_seq)
  /\ IF ~active
       THEN UNCHANGED << send_data, isr_pc, isr_i, isr_raw, reads >>
       ELSE /\ send_data' = PutHeaderSeq(send_data, g_seq)
            /\ isr_pc' = "select"
            /\ isr_i' = 0
            /\ isr_raw' = << >>
            /\ UNCHANGED reads
  /\ UNCHANGED << active, tx, rx, loopLocals, sensorState, cs_low, ncmds, nfaults >>

sendData_enter(limit) ==
  /\ isr_pc = "idle"
  /\ ticks < limit
  /\ ticks' = ticks + 1
  /\ IF ~active
       THEN UNCHANGED << g_seq, send_data, isr_pc, isr_i, isr_raw, reads >>
       ELSE /\ send_data' = PutHeaderSeq(send_data, g_seq)
            /\ g_seq' = SeqIncrement(g_seq)
            /\ isr_pc' = "select"
            /\ isr_i' = 0
            /\ isr_raw' = << >>
            /\ UNCHANGED reads
  /\ UNCHANGED << active, tx, rx, loopLocals, sensorState, cs_low, ncmds, nfaults >>

\* readBytes: digitalWrite(_csPin, LOW)
sendData_select ==
  /\ isr_pc = "select"
  /\ cs_low' = cs_low \cup {CsPin(isr_i)}
  /\ isr_pc' = "read"
  /\ UNCHANGED << active, g_seq, send_data, tx, rx, isr_i, isr_raw, reads,
                  loopLocals, sensorState, ticks, ncmds, nfaults >>

\* readBytes' transfers, digitalWrite(_csPin, HIGH), and the six bytes of
\* sensor i stored in send_data; vals is what the sensor may present.
sendData_read(vals) ==
  /\ isr_pc = "read"
  /\ \E t \in vals :
       /\ send_data' = PutSensor(send_data, isr_i, readAccelRaw(OutRegs(t)))
       /\ isr_raw' = Append(isr_raw, readAccelRaw(OutRegs(t)))
  /\ cs_low' = cs_low \ {CsPin(isr_i)}
  /\ IF isr_i + 1 < IMU_NUM
       THEN isr_i' = isr_i + 1 /\ isr_pc' = "select"
       ELSE isr_i' = 0 /\ isr_pc' = "write"
  /\ UNCHANGED << active, g_seq, tx, rx, reads, loopLocals, sensorState, ticks,
                  ncmds, nfaults >>

\* The checksum, the footer and Serial.write(send_data, DATA_LEN).
sendData_write ==
  /\ isr_pc = "write"
  /\ send_data' = PutTrailer(send_data)
  /\ tx' = Append(tx, [src |-> "sendData",
                       bytes |-> WriteBytes(PutTrailer(send_data), DATA_LEN)])
  /\ isr_pc' = "idle"
  /\ reads' = Append(reads, isr_raw)
  /\ isr_raw' = << >>
  /\ UNCHANGED << active, g_seq, rx, isr_i, loopLocals, sensorState, cs_low,
                  ticks, ncmds, nfaults >>

(***************************************************************************)
(* The host sends a command byte: it waits in the UART until loop() reads  *)
(* it. It may arrive at any moment, also while sendData is running.        *)
(***************************************************************************)
HostSends ==
  /\ ncmds < MaxCmds
  /\ \E c \in Commands : rx' = Append(rx, c)
  /\ ncmds' = ncmds + 1
  /\ UNCHANGED << active, g_seq, send_data, tx, isrLocals, loopLocals,
                  sensorState, cs_low, ticks, nfaults >>

(***************************************************************************)
(* loop(): one command byte per pass.                                      *)
(***************************************************************************)
\* The value of active after chr has been handled ('s' sets it once
\* initializeSensors has returned).
ActiveAfterNoRestart(chr, a) ==
  IF chr = CMD_S THEN TRUE
  ELSE IF chr = CMD_E THEN FALSE
  ELSE a
ActiveAfter(chr, a) ==
  IF chr = CMD_S THEN TRUE
  ELSE IF chr = CMD_E THEN FALSE
  ELSE IF chr = CMD_R THEN TRUE
  ELSE a

loop_read_resets_seq ==
  /\ isr_pc = "idle"
  /\ loop_pc = "poll"
  /\ rx # << >>
  /\ rx' = Tail(rx)
  /\ g_seq' = IF Head(rx) = CMD_S THEN 0 ELSE g_seq
  /\ IF Head(rx) = CMD_S
       THEN /\ loop_pc' = "who_select"
            /\ loop_i' = 0
            /\ UNCHANGED active
       ELSE /\ active' = ActiveAfter(Head(rx), active)
            /\ UNCHANGED << loop_pc, loop_i >>
  /\ UNCHANGED << send_data, tx, isrLocals, loop_reg, whoami,
                  begin_ret, sensorState, cs_low, ticks, ncmds, nfaults >>

loop_read ==
  /\ isr_pc = "idle"
  /\ loop_pc = "poll"
  /\ rx # << >>
  /\ rx' = Tail(rx)
  /\ IF Head(rx) = CMD_S
       THEN /\ loop_pc' = "who_select"
            /\ loop_i' = 0
            /\ UNCHANGED active
       ELSE /\ active' = ActiveAfter(Head(rx), active)
            /\ UNCHANGED << loop_pc, loop_i >>
  /\ UNCHANGED << g_seq, send_data, tx, isrLocals, loop_reg, whoami,
                  begin_ret, sensorState, cs_low, ticks, ncmds, nfaults >>

\* begin() of sensor loop_i is over: the next sensor, or initializeSensors
\* returns and loop() sets active.
NextSensor ==
  IF loop_i + 1 < IMU_NUM
    THEN /\ loop_i' = loop_i + 1
         /\ loop_pc' = "who_select"
         /\ UNCHANGED active
    ELSE /\ loop_i' = 0
         /\ loop_pc' = "poll"
         /\ active' = ActiveAfter(CMD_S, active)

\* readByte(WHO_AM_I): digitalWrite(_csPin, LOW)
begin_who_select ==
  /\ isr_pc = "idle"
  /\ loop_pc = "who_select"
  /\ cs_low' = cs_low \cup {CsPin(loop_i)}
  /\ loop_pc' = "who_transfer"
  /\ UNCHANGED << active, g_seq, send_data, tx, rx, isrLocals, loop_i,
                  loop_reg, whoami, begin_ret, sensorState, ticks, ncmds,
                  nfaults >>

\* begin() as it would be if the scales were stored before WHO_AM_I is
\* checked.
begin_who_transferStoresFirst ==
  /\ isr_pc = "idle"
  /\ loop_pc = "who_transfer"
  /\ cs_low' = cs_low \ {CsPin(loop_i)}
  /\ accelScale' = [accelScale EXCEPT ![loop_i] = ACC_FS_16G]
  /\ gyroScale' = [gyroScale EXCEPT ![loop_i] = GYR_FS_2000DPS]
  /\ \E w \in WhoAmIReplies :
       /\ whoami' = w
       /\ IF w # WHO_AM_I_OK
            THEN /\ nfaults < MaxFaults
                 /\ nfaults' = nfaults + 1
                 /\ loop_pc' = "mismatch_print"
                 /\ UNCHANGED loop_reg
            ELSE /\ loop_reg' = 1
                 /\ loop_pc' = "write_select"
                 /\ UNCHANGED nfaults
  /\ UNCHANGED << active, g_seq, send_data, tx, rx, isrLocals, loop_i,
                  begin_ret, regs, ticks, ncmds >>

\* readByte's transfers and digitalWrite(_csPin, HIGH); on 0x6A the scales
\* are stored.
begin_who_transfer ==
  /\ isr_pc = "idle"
  /\ loop_pc = "who_transfer"
  /\ cs_low' = cs_low \ {CsPin(loop_i)}
  /\ \E w \in WhoAmIReplies :
       /\ whoami' = w
       /\ IF w # WHO_AM_I_OK
            THEN /\ nfaults < MaxFaults
                 /\ nfaults' = nfaults + 1
                 /\ loop_pc' = "mismatch_print"
                 /\ UNCHANGED << accelScale, gyroScale, loop_reg >>
            ELSE /\ accelScale' = [accelScale EXCEPT ![loop_i] = ACC_FS_16G]
                 /\ gyroScale' = [gyroScale EXCEPT ![loop_i] = GYR_FS_2000DPS]
                 /\ loop_reg' = 1
                 /\ loop_pc' = "write_select"
                 /\ UNCHANGED nfaults
  /\ UNCHANGED << active, g_seq, send_data, tx, rx, isrLocals, loop_i,
                  begin_ret, regs, ticks, ncmds >>

\* Serial.print("WHO_AM_I mismatch: ")
begin_mismatch_print ==
  /\ isr_pc = "idle"
  /\ loop_pc = "mismatch_print"
  /\ tx' = Append(tx, [src |-> "begin", bytes |-> MismatchText])
  /\ loop_pc' = "mismatch_println"
  /\ UNCHANGED << active, g_seq, send_data, rx, isrLocals, loop_i, loop_reg,
                  whoami, begin_ret, sensorState, cs_low, ticks, ncmds,
                  nfaults >>

\* Serial.println(whoami, HEX); return false
begin_mismatch_println ==
  /\ isr_pc = "idle"
  /\ loop_pc = "mismatch_println"
  /\ tx' = Append(tx, [src |-> "begin", bytes |-> PrintlnHex(whoami)])
  /\ whoami' = 0
  /\ begin_ret' = FALSE
  /\ NextSensor
  /\ UNCHANGED << g_seq, send_data, rx, isrLocals, loop_reg, sensorState,
                  cs_low, ticks, ncmds, nfaults >>

\* writeByte(CTRLn, value): digitalWrite(_csPin, LOW)
begin_write_select ==
  /\ isr_pc = "idle"
  /\ loop_pc = "write_select"
  /\ cs_low' = cs_low \cup {CsPin(loop_i)}
  /\ loop_pc' = "write_transfer"
  /\ UNCHANGED << active, g_seq, send_data, tx, rx, isrLocals, loop_i,
                  loop_reg, whoami, begin_ret, sensorState, ticks, ncmds,
                  nfaults >>

\* writeByte's transfers and digitalWrite(_csPin, HIGH); after CTRL3_C
\* begin() returns true.
begin_write_transfer ==
  /\ isr_pc = "idle"
  /\ loop_pc = "write_transfer"
  /\ cs_low' = cs_low \ {CsPin(loop_i)}
  /\ regs' = [regs EXCEPT ![loop_i][loop_reg] = RegsConfigured[loop_reg]]
  /\ IF loop_reg < 3
       THEN /\ loop_reg' = loop_reg + 1
            /\ loop_pc' = "write_select"
            /\ UNCHANGED << active, loop_i, whoami, begin_ret >>
       ELSE /\ loop_reg' = 0
            /\ whoami' = 0
            /\ begin_ret' = TRUE
            /\ NextSensor
  /\ UNCHANGED << g_seq, send_data, tx, rx, isrLocals, accelScale, gyroScale,
                  ticks, ncmds, nfaults >>

Isr ==
  \/ sendData_enter(MaxTicks)
  \/ sendData_select
  \/ sendData_read({Signal(ticks, isr_i)})
  \/ sendData_write

Loop ==
  \/ loop_read
  \/ begin_who_select
  \/ begin_who_transfer
  \/ begin_mismatch_print
  \/ begin_mismatch_println
  \/ begin_write_select
  \/ begin_write_transfer


(***************************************************************************)
(* The Processing host (measurement_LSM6DS3TR.pde, Accel.pde).             *)
(***************************************************************************)
SENSOR_NUM == IMU_NUM
FSR_NUM == 0
FULL_SCALE == 16
BAUDRATE == 921600
\* static int DATA_LEN = (int)(SAMPLING_RATE * DURATION) of the sketch, the
\* capacity of each per-sensor history (237 as built).
HOST_DATA_LEN == 4
\* int measurementSensor = 1
measurementSensor == 1
\* Frames of a stream that is fed to the host.
MaxFrames == 2

\* A byte of the link as a Java byte (readBytes fills a byte[]).
JavaByte(u) == IF u >= 128 THEN u - 256 ELSE u
\* int(b) of Processing: the byte un-signed, b & 0xff.
ParseIntByte(b) == b % 256
\* (buffer[k] << 8) + int(buffer[k + 1]) on Java bytes.
RawFromBytes(hi, lo) == hi * 256 + ParseIntByte(lo)

\* Accel.convertToG and convertRawAccel: _a * (2.0 * FULL_SCALE) / (1 << 16),
\* kept exact as the numerator over 65536.
convertToG(a) == a * (2 * FULL_SCALE)
\* Accel.convertToMS2: _ag * 9.8, kept exact as the numerator over 655360.
convertToMS2(g) == g * 98
\* new Accel(int _ax, int _ay, int _az)
Accel(t) ==
  [ ax |-> convertToMS2(convertToG(t[1])),
    ay |-> convertToMS2(convertToG(t[2])),
    az |-> convertToMS2(convertToG(t[3])) ]
convertRawAccel(t) == << convertToG(t[1]), convertToG(t[2]), convertToG(t[3]) >>

\* System.nanoTime() / 1000 is a long; it is kept as [hi, lo], the value
\* being hi * 2^31 + lo with lo in 0 .. 2^31 - 1.
INT_MAX == 2147483647
ClockAdd(c, d) ==
  IF c.lo > INT_MAX - d THEN [hi |-> c.hi + 1, lo |-> c.lo - (INT_MAX - d) - 1]
  ELSE [hi |-> c.hi, lo |-> c.lo + d]
\* (int) of that long: the low 32 bits, signed.
Int32(c) == IF c.hi % 2 = 1 THEN c.lo - INT_MAX - 1 ELSE c.lo

\* The time one byte takes on the link, in microseconds (8N1).
ByteTimeUs == 10000000 \div BAUDRATE

VARIABLES
  wire,             \* bytes the device sent that have not reached the host
  inBuf,            \* the serial port's input buffer (p.available() bytes)
  isSerialReady,    \* Boolean isSerialReady
  rawAccels,        \* int[] rawAccels
  accels,           \* float[] accels
  accelLists,       \* accelLists.get(i): the history of sensor i
  accelMeasureList, \* ArrayList<Accel> accelMeasureList
  timestamp,        \* ArrayList<Integer> timestamp
  isAccelMeasure,   \* Boolean isAccelMeasure
  isRealtimeRec,    \* Boolean isRealtimeRec
  nanoTime,         \* System.nanoTime() / 1000
  stream,           \* what was put on the wire: the frames and the damage
  nDecoded,         \* buffers serialEvent has decoded so far
  nCleared,         \* bytes myport.clear() discarded
  console,          \* the lines println wrote: [src, text]
  appended          \* every Accel added to accelLists.get(i), in order

\* The animation thread's keyPressed and the file it writes.
VARIABLES
  accelOutputWriter, \* PrintWriter accelOutputWriter: "null", "open", "closed"
  outRows,          \* the rows println'ed to the file accelOutputWriter writes
  key_pc,           \* where keyPressed is
  key_i,            \* the index i of its output loop
  keyFault,         \* the exception that ended keyPressed, or "none"
  nkeys             \* keys pressed so far

\* serialEvent on the serial library's thread, step by step.
VARIABLES
  se_pc,            \* where serialEvent is
  se_i,             \* its loop index i
  se_buf            \* byte[] buffer

\* calcSSandCCsum as draw() and measureAmpWithQD call it.
VARIABLES
  ev_pc,            \* where the evaluation is
  ev_by,            \* who runs it: "draw", "sweep" or "none"
  ev_sid,           \* draw's sid, or measurementSensor
  ev_i,             \* calcSSandCCsum's i
  ev_SS,            \* SSsum
  ev_CC,            \* CCsum
  ev_vals,          \* the al.get(i).az read so far
  ev_base,          \* evictions from the list when the evaluation began
  qd_out,           \* the results shown or written: [by, sid, amp, phase]
  ndraws,           \* calls of draw() so far
  sweep_pc,         \* the thread measureAmpWithQD: "off", where it is, "done"
  sweep_n,          \* iterations of its loop so far: sineAmp is sweep_n times 0.01
  sweepOps,         \* what it called on sine, maxAmpWriter and the detector: [op, arg]
  tableSS,          \* float[] SS
  tableCC           \* float[] CC

keyVars == << accelOutputWriter, outRows, key_pc, key_i, keyFault, nkeys >>
seVars == << se_pc, se_i, se_buf >>
evVars == << ev_pc, ev_by, ev_sid, ev_i, ev_SS, ev_CC, ev_vals, ev_base,
             qd_out, ndraws, sweep_pc, sweep_n, sweepOps, tableSS, tableCC >>

hostVars == << wire, inBuf, isSerialReady, rawAccels, accels, accelLists,
               accelMeasureList, timestamp, isAccelMeasure, isRealtimeRec,
               nanoTime, stream, nDecoded, nCleared, console, appended,
               keyVars, seVars, evVars >>

vars == << fwVars, hostVars >>

\* header + 6*SENSOR_NUM + 2*FSR_NUM + footer, with int header = 1, footer = 1.
HostFrameLen == 1 + 6 * SENSOR_NUM + 2 * FSR_NUM + 1

\* rawAccels of sensor i in buffer (Java bytes, index 0 first), header = 1.
DecodeSensor(buffer, i) ==
  << RawFromBytes(buffer[1 + 0 + i * 6], buffer[1 + 1 + i * 6]),
     RawFromBytes(buffer[1 + 2 + i * 6], buffer[1 + 3 + i * 6]),
     RawFromBytes(buffer[1 + 4 + i * 6], buffer[1 + 5 + i * 6]) >>

\* An eviction that removes the newest sample instead of the oldest.
EvictNewest(list) ==
  IF Len(list) > HOST_DATA_LEN THEN SubSeq(list, 1, Len(list) - 1) ELSE list
\* if (accelLists.get(i).size() > DATA_LEN) accelLists.get(i).remove(0)
Evict(list) == IF Len(list) > HOST_DATA_LEN THEN Tail(list) ELSE list
\* accelLists.get(i).add(_a); if (size() > DATA_LEN) remove(0)
AddToHistory(list, a) == Evict(Append(list, a))

\* The reference tables of the quadrature detection as setup() fills them.
\* The stimulus is sampled four times per cycle, where sine and cosine are
\* exactly 0, 1, 0, -1.
\* sin(k * PI / 2), k = 0 .. 3
QuarterSine == << 0, 1, 0, -1 >>
\* SAMPLING_RATE / VIBRATION_FREQ as modelled: samples per cycle.
SamplesPerCycle == Len(QuarterSine)
\* SS[i] = sin(2 * PI * VIBRATION_FREQ * (i * 1 / SAMPLING_RATE) + 0)
SS(i) == QuarterSine[(i % SamplesPerCycle) + 1]
\* CC[i] = cos(2 * PI * VIBRATION_FREQ * (i * 1 / SAMPLING_RATE) + 0)
CC(i) == QuarterSine[((i + 1) % SamplesPerCycle) + 1]

\* The globals of the sketch as initialised, but for the histories.
HostGlobals ==
  /\ inBuf = << >>
  /\ rawAccels = << 0, 0, 0 >>
  /\ accels = << 0, 0, 0 >>
  /\ accelMeasureList = << >>
  /\ timestamp = << >>
  /\ isAccelMeasure = FALSE
  /\ isRealtimeRec = FALSE
  /\ nanoTime = [hi |-> 0, lo |-> 0]
  /\ nDecoded = 0
  /\ nCleared = 0
  /\ accelOutputWriter = "null"
  /\ outRows = << >>
  /\ key_pc = "idle"
  /\ key_i = 0
  /\ keyFault = "none"
  /\ nkeys = 0
  /\ se_pc = "idle"
  /\ se_i = 0
  /\ se_buf = << >>
  /\ ev_pc = "idle"
  /\ ev_by = "none"
  /\ ev_sid = 0
  /\ ev_i = 0
  /\ ev_SS = 0
  /\ ev_CC = 0
  /\ ev_vals = << >>
  /\ ev_base = 0
  /\ qd_out = << >>
  /\ ndraws = 0
  /\ sweep_pc = "off"
  /\ sweep_n = 0
  /\ sweepOps = << >>

\* The sketch as the Serial object is constructed in setup(): the port
\* open, nothing received.
HostStart ==
  /\ isSerialReady = FALSE
  /\ accelLists = [i \in 0 .. (SENSOR_NUM - 1) |-> << >>]
  /\ appended = [i \in 0 .. (SENSOR_NUM - 1) |-> << >>]
  /\ console = << >>
  /\ tableSS = [i \in 1 .. HOST_DATA_LEN |-> 0]
  /\ tableCC = [i \in 1 .. HOST_DATA_LEN |-> 0]
  /\ HostGlobals

\* The sketch after setup(), with the histories holding what serialEvent
\* appended so far (app) less what it evicted.
RECURSIVE Replay(_, _)
Replay(app, n) ==
  IF n = 0 THEN << >> ELSE AddToHistory(Replay(app, n - 1), app[n])
HostRunning(app) ==
  /\ isSerialReady = TRUE
  /\ accelLists = [i \in 0 .. (SENSOR_NUM - 1) |-> Replay(app[i], Len(app[i]))]
  /\ appended = app
  /\ console = << [src |-> "setup", text |-> "DATA_LEN: "] >>
  /\ tableSS = [i \in 1 .. HOST_DATA_LEN |-> SS(i - 1)]
  /\ tableCC = [i \in 1 .. HOST_DATA_LEN |-> CC(i - 1)]
  /\ HostGlobals

\* setup() after the Serial object is constructed: the loop that fills SS
\* and CC, isSerialReady = true; myport.clear(); myport.write('s');
\* println("DATA_LEN: ", DATA_LEN).
\* The command goes to the device; here the device side is the stream.
host_setup ==
  /\ ~isSerialReady
  /\ isSerialReady' = TRUE
  /\ inBuf' = << >>
  /\ nCleared' = nCleared + Len(inBuf)
  /\ console' = Append(console, [src |-> "setup", text |-> "DATA_LEN: "])
  /\ tableSS' = [i \in 1 .. HOST_DATA_LEN |-> SS(i - 1)]
  /\ tableCC' = [i \in 1 .. HOST_DATA_LEN |-> CC(i - 1)]
  /\ UNCHANGED << wire, rawAccels, accels, accelLists, accelMeasureList,
                  timestamp, isAccelMeasure, isRealtimeRec, nanoTime, stream,
                  nDecoded, appended, keyVars, seVars >>
  /\ UNCHANGED << ev_pc, ev_by, ev_sid, ev_i, ev_SS, ev_CC, ev_vals, ev_base,
                  qd_out, ndraws, sweep_pc, sweep_n, sweepOps >>
  /\ UNCHANGED fwVars

\* The body of serialEvent on a port buffer `avail` at time `now`, with rs
\* the sensor index its recording branch compares i to.
serialEventOf(avail, now, rs) ==
  IF ~isSerialReady \/ ~(Len(avail) > HostFrameLen - 1)
    THEN /\ inBuf' = avail
         /\ UNCHANGED << rawAccels, accels, accelLists, accelMeasureList,
                         timestamp, nDecoded, appended >>
    ELSE LET buffer == [k \in 0 .. (HostFrameLen - 1) |-> JavaByte(avail[k + 1])]
             last == SENSOR_NUM - 1
             rec == isAccelMeasure \/ isRealtimeRec
         IN /\ inBuf' = SubSeq(avail, HostFrameLen + 1, Len(avail))
            /\ rawAccels' = DecodeSensor(buffer, last)
            /\ accels' = convertRawAccel(DecodeSensor(buffer, last))
            /\ accelLists' =
                 [i \in 0 .. last |->
                    AddToHistory(accelLists[i], Accel(DecodeSensor(buffer, i)))]
            /\ appended' =
                 [i \in 0 .. last |->
                    Append(appended[i], Accel(DecodeSensor(buffer, i)))]
            /\ IF rec /\ rs <= last
                 THEN /\ accelMeasureList' =
                           Append(accelMeasureList,
                                  Accel(DecodeSensor(buffer, rs)))
                      /\ timestamp' = Append(timestamp, Int32(now))
                 ELSE UNCHANGED << accelMeasureList, timestamp >>
            /\ nDecoded' = nDecoded + 1

\* A recording branch that takes sensor 0.
serialEventRecordsFirst(avail, now) == serialEventOf(avail, now, 0)
\* if (i == measurementSensor && (isAccelMeasure || isRealtimeRec))
serialEvent(avail, now) == serialEventOf(avail, now, measurementSensor)

\* k bytes reach the port and the library calls serialEvent, which runs
\* with no other thread of the sketch in between.
host_serialEvent(k) ==
  /\ se_pc = "idle"
  /\ k <= Len(wire)
  /\ wire' = SubSeq(wire, k + 1, Len(wire))
  /\ nanoTime' = ClockAdd(nanoTime, k * ByteTimeUs)
  /\ serialEvent(inBuf \o SubSeq(wire, 1, k), ClockAdd(nanoTime, k * ByteTimeUs))
  /\ UNCHANGED << isSerialReady, isAccelMeasure, isRealtimeRec, stream,
                  nCleared, console, keyVars, seVars, evVars >>
  /\ UNCHANGED fwVars


(***************************************************************************)
(* Quadrature detection: the tables SS and CC of setup(), calcSSandCCsum,  *)
(* detectPhase and detectAmp. Floats are kept as integers: an Accel field  *)
(* is its numerator over 655360 as above. The stimulus is sampled four     *)
(* times per cycle, where sine and cosine are exactly 0, 1, 0, -1.         *)
(***************************************************************************)
\* Calls of draw() that are followed.
MaxDraws == 1
\* Settings of measureAmpWithQD's loop: sineAmp = 0.0, 0.01, ... while
\* sineAmp <= 1.0 in the sketch, 0 .. MaxSweeps - 1 hundredths here.
MaxSweeps == 2
\* Keys pressed that are followed.
MaxKeys == 3

\* float[] calcSSandCCsum(ArrayList<Accel> al) on a list of at least
\* DATA_LEN elements: the sums after the first n terms.
RECURSIVE SSCCsum(_, _)
SSCCsum(al, n) ==
  IF n = 0 THEN << 0, 0 >>
  ELSE LET s == SSCCsum(al, n - 1)
       IN << s[1] + SS(n - 1) * al[n].az, s[2] + CC(n - 1) * al[n].az >>
calcSSandCCsum(al) == SSCCsum(al, HOST_DATA_LEN)

Abs(x) == IF x < 0 THEN 0 - x ELSE x
\* The largest r in lo .. hi with r * r <= x.
RECURSIVE SqrtBetween(_, _, _)
SqrtBetween(x, lo, hi) ==
  IF lo >= hi THEN lo
  ELSE LET mid == (lo + hi + 1) \div 2
       IN IF mid * mid <= x THEN SqrtBetween(x, mid, hi)
          ELSE SqrtBetween(x, lo, mid - 1)
\* sqrt(x * x + y * y) to 14 significant bits or more (a float keeps 24):
\* exact when the root is an integer below 2^14.
SqrtSumSq(x, y) ==
  LET m == IF Abs(x) > Abs(y) THEN Abs(x) ELSE Abs(y)
      s == (m \div 16384) + 1
      u == Abs(x) \div s
      v == Abs(y) \div s
  IN SqrtBetween(u * u + v * v, 0, 32767) * s

\* atan2(y, x): the exact values on the axes, the open quadrant elsewhere.
atan2(y, x) ==
  IF y = 0 THEN (IF x >= 0 THEN "0" ELSE "PI")
  ELSE IF x = 0 THEN (IF y > 0 THEN "PI/2" ELSE "-PI/2")
  ELSE IF y > 0 THEN (IF x > 0 THEN "(0, PI/2)" ELSE "(PI/2, PI)")
  ELSE (IF x > 0 THEN "(-PI/2, 0)" ELSE "(-PI, -PI/2)")

detectPhase(SSsum, CCsum) == atan2(CCsum, SSsum)
\* sqrt(SSsum*SSsum + CCsum*CCsum) * 2.0 / DATA_LEN, as the numerator over
\* DATA_LEN.
detectAmpHalf(SSsum, CCsum) == SqrtSumSq(SSsum, CCsum)
detectAmp(SSsum, CCsum) == SqrtSumSq(SSsum, CCsum) * 2

(***************************************************************************)
(* calcSSandCCsum as it is called, one al.get(i) at a time: by draw() on   *)
(* the animation thread for every sensor whose history is full, and by     *)
(* measureAmpWithQD on its own thread for measurementSensor. One           *)
(* evaluation at a time is followed.                                        *)
(***************************************************************************)
hostData == << wire, inBuf, isSerialReady, rawAccels, accels, accelLists,
               accelMeasureList, timestamp, isAccelMeasure, isRealtimeRec,
               nanoTime, stream, nDecoded, nCleared, appended >>

\* One call measureAmpWithQD makes on sine, on maxAmpWriter or on the
\* detector, and the log of them; a print is one row: the setting and the
\* detected amplitude.
SweepOp(op, arg) == [op |-> op, arg |-> arg]
SweepDoes(ops) == sweepOps \o ops

\* A call whose sums start from what the call before left in them.
CallCalcKeepsSums(by, sid) ==
  /\ ev_by' = by
  /\ ev_sid' = sid
  /\ ev_pc' = "read"
  /\ ev_i' = 0
  /\ UNCHANGED << ev_SS, ev_CC >>
  /\ ev_vals' = << >>
  /\ ev_base' = Len(appended[sid]) - Len(accelLists[sid])

\* The call: SSsum = 0, CCsum = 0, i = 0 on the list of sensor sid.
CallCalc(by, sid) ==
  /\ ev_by' = by
  /\ ev_sid' = sid
  /\ ev_pc' = "read"
  /\ ev_i' = 0
  /\ ev_SS' = 0
  /\ ev_CC' = 0
  /\ ev_vals' = << >>
  /\ ev_base' = Len(appended[sid]) - Len(accelLists[sid])

EvalIdle ==
  /\ ev_by' = "none"
  /\ ev_sid' = 0
  /\ ev_pc' = "idle"
  /\ ev_i' = 0
  /\ ev_SS' = 0
  /\ ev_CC' = 0

\* draw(): the next sid of its loop, or its end.
DrawNext ==
  IF ev_sid + 1 < SENSOR_NUM
    THEN /\ ev_sid' = ev_sid + 1
         /\ ev_pc' = "check"
         /\ UNCHANGED << ev_by, ev_i, ev_SS, ev_CC >>
    ELSE EvalIdle

\* draw() is called (displayFSR and displayAccels are not modelled).
draw_begin ==
  /\ ev_pc = "idle"
  /\ key_pc = "idle"
  /\ keyFault = "none"
  /\ ndraws < MaxDraws
  /\ ndraws' = ndraws + 1
  /\ ev_by' = "draw"
  /\ ev_sid' = 0
  /\ ev_pc' = "check"
  /\ UNCHANGED << ev_i, ev_SS, ev_CC, ev_vals, ev_base, qd_out, sweep_pc, sweep_n >>
  /\ UNCHANGED << sweepOps, tableSS, tableCC >>
  /\ UNCHANGED << hostData, console, keyVars, seVars, fwVars >>

\* if (accelLists.get(sid).size() >= DATA_LEN) calcSSandCCsum(...)
draw_check ==
  /\ ev_pc = "check"
  /\ IF Len(accelLists[ev_sid]) >= HOST_DATA_LEN
       THEN CallCalc("draw", ev_sid)
       ELSE DrawNext /\ UNCHANGED << ev_vals, ev_base >>
  /\ UNCHANGED << qd_out, ndraws, sweep_pc, sweep_n, sweepOps, tableSS, tableCC >>
  /\ UNCHANGED << hostData, console, keyVars, seVars, fwVars >>

\* One pass of calcSSandCCsum's loop: al.get(i) throws when i is not below
\* the size of the list, which ends the thread that called.
calc_read ==
  /\ ev_pc = "read"
  /\ ev_i < HOST_DATA_LEN
  /\ IF ev_i >= Len(accelLists[ev_sid])
       THEN /\ EvalIdle
            /\ IF ev_by = "sweep"
                 THEN /\ sweep_pc' = "IndexOutOfBoundsException"
                      /\ UNCHANGED keyVars
                 ELSE /\ keyFault' = "IndexOutOfBoundsException"
                      /\ UNCHANGED << accelOutputWriter, outRows, key_pc, key_i,
                                      nkeys, sweep_pc >>
            /\ UNCHANGED ev_vals
       ELSE /\ ev_SS' = ev_SS + tableSS[ev_i + 1] * accelLists[ev_sid][ev_i + 1].az
            /\ ev_CC' = ev_CC + tableCC[ev_i + 1] * accelLists[ev_sid][ev_i + 1].az
            /\ ev_vals' = Append(ev_vals, accelLists[ev_sid][ev_i + 1])
            /\ ev_i' = ev_i + 1
            /\ UNCHANGED << ev_pc, ev_by, ev_sid, sweep_pc, keyVars >>
  /\ UNCHANGED << ev_base, qd_out, ndraws, sweep_n, sweepOps, tableSS, tableCC >>
  /\ UNCHANGED << hostData, console, seVars, fwVars >>

\* calcSSandCCsum returns; detectPhase and detectAmp; the result is shown
\* (draw), or written as one row of the sweep's file, and sineAmp += 0.01.
calc_return ==
  /\ ev_pc = "read"
  /\ ev_i = HOST_DATA_LEN
  /\ qd_out' = Append(qd_out, [by |-> ev_by, sid |-> ev_sid,
                               phase |-> detectPhase(ev_SS, ev_CC),
                               amp |-> detectAmp(ev_SS, ev_CC)])
  /\ IF ev_by = "draw"
       THEN DrawNext /\ UNCHANGED << sweep_n, sweep_pc, sweepOps >>
       ELSE /\ EvalIdle
            /\ sweepOps' = SweepDoes(<< SweepOp("print", << sweep_n, detectAmp(ev_SS, ev_CC) >>) >>)
            /\ sweep_n' = sweep_n + 1
            /\ sweep_pc' = "test"
  /\ UNCHANGED << ev_vals, ev_base, ndraws, tableSS, tableCC >>
  /\ UNCHANGED << hostData, console, keyVars, seVars, fwVars >>

\* measureAmpWithQD starts: createWriter, the header line, sine.freq,
\* sine.play, delay(1), sineAmp = 0.0.
sweep_begin ==
  /\ sweep_pc = "begin"
  /\ sweepOps' = SweepDoes(<< SweepOp("createWriter", << >>),
                              SweepOp("println", << >>),
                              SweepOp("sine.freq", << >>),
                              SweepOp("sine.play", << >>),
                              SweepOp("delay", << >>) >>)
  /\ sweep_n' = 0
  /\ sweep_pc' = "test"
  /\ UNCHANGED << ev_pc, ev_by, ev_sid, ev_i, ev_SS, ev_CC, ev_vals, ev_base,
                  qd_out, ndraws, tableSS, tableCC >>
  /\ UNCHANGED << hostData, console, keyVars, seVars, fwVars >>

\* The test of the loop: sine.amp(sineAmp) for the next setting, or after
\* the last one maxAmpWriter.close(), sine.stop() and the println.
sweep_amp ==
  /\ sweep_pc = "test"
  /\ IF sweep_n < MaxSweeps
       THEN /\ sweepOps' = SweepDoes(<< SweepOp("sine.amp", << sweep_n >>) >>)
            /\ sweep_pc' = "delay"
            /\ UNCHANGED console
       ELSE /\ sweepOps' = SweepDoes(<< SweepOp("close", << >>),
                                        SweepOp("sine.stop", << >>) >>)
            /\ console' = Append(console,
                 [src |-> "measureAmpWithQD",
                  text |-> "--- qd measurement ended -----"])
            /\ sweep_pc' = "done"
  /\ UNCHANGED << ev_pc, ev_by, ev_sid, ev_i, ev_SS, ev_CC, ev_vals, ev_base,
                  qd_out, ndraws, sweep_n, tableSS, tableCC >>
  /\ UNCHANGED << hostData, keyVars, seVars, fwVars >>

\* delay(int(DURATION * 1000)): one window's duration passes.
sweep_delay ==
  /\ sweep_pc = "delay"
  /\ sweepOps' = SweepDoes(<< SweepOp("delay", << >>) >>)
  /\ sweep_pc' = "call"
  /\ UNCHANGED << ev_pc, ev_by, ev_sid, ev_i, ev_SS, ev_CC, ev_vals, ev_base,
                  qd_out, ndraws, sweep_n, tableSS, tableCC >>
  /\ UNCHANGED << hostData, console, keyVars, seVars, fwVars >>

\* After the delay, calcSSandCCsum on accelLists.get(measurementSensor),
\* whatever its size.
sweep_call ==
  /\ sweep_pc = "call"
  /\ ev_pc = "idle"
  /\ CallCalc("sweep", measurementSensor)
  /\ sweepOps' = SweepDoes(<< SweepOp("calcSSandCCsum", << >>) >>)
  /\ sweep_pc' = "calc"
  /\ UNCHANGED << qd_out, ndraws, sweep_n, tableSS, tableCC >>
  /\ UNCHANGED << hostData, console, keyVars, seVars, fwVars >>

\* keyPressed, key == 'q': thread("measureAmpWithQD"). One such thread is
\* followed.
key_q ==
  /\ key_pc = "idle"
  /\ keyFault = "none"
  /\ ~(ev_by = "draw")
  /\ nkeys < MaxKeys
  /\ sweep_pc = "off"
  /\ nkeys' = nkeys + 1
  /\ console' = Append(console,
       [src |-> "keyPressed",
        text |-> "start measuring max amp with quadrature detection"])
  /\ sweep_pc' = "begin"
  /\ UNCHANGED << accelOutputWriter, outRows, key_pc, key_i, keyFault >>
  /\ UNCHANGED << ev_pc, ev_by, ev_sid, ev_i, ev_SS, ev_CC, ev_vals, ev_base,
                  qd_out, ndraws, sweep_n, sweepOps, tableSS, tableCC >>
  /\ UNCHANGED << hostData, seVars, fwVars >>


(***************************************************************************)
(* serialEvent statement by statement, as the other threads of the sketch  *)
(* see it: it runs on the serial library's thread, draw() and keyPressed   *)
(* on the animation thread, measureAmpWithQD on a thread of its own, and   *)
(* nothing synchronises them. The test of the recording flags is taken     *)
(* together with the remove(0) before it.                                  *)
(***************************************************************************)
\* The Accel _a of the sensor serialEvent is at.
SeAccel == Accel(DecodeSensor(se_buf, se_i))

\* A loop that starts its pass over again.
SeNextRepeats ==
  /\ se_pc' = "add"
  /\ UNCHANGED << se_i, se_buf >>

\* The end of one pass of serialEvent's loop.
SeNext ==
  IF se_i + 1 < SENSOR_NUM
    THEN /\ se_i' = se_i + 1
         /\ se_pc' = "add"
         /\ UNCHANGED se_buf
    ELSE /\ se_i' = 0
         /\ se_pc' = "idle"
         /\ se_buf' = << >>

\* k bytes reach the port and the library calls serialEvent: the test of
\* isSerialReady and p.available(), and myport.readBytes(buffer).
se_arrive(k) ==
  /\ se_pc = "idle"
  /\ k <= Len(wire)
  /\ wire' = SubSeq(wire, k + 1, Len(wire))
  /\ nanoTime' = ClockAdd(nanoTime, k * ByteTimeUs)
  /\ LET avail == inBuf \o SubSeq(wire, 1, k)
     IN IF ~isSerialReady \/ ~(Len(avail) > HostFrameLen - 1)
          THEN /\ inBuf' = avail
               /\ UNCHANGED << se_pc, se_i, se_buf, nDecoded >>
          ELSE /\ inBuf' = SubSeq(avail, HostFrameLen + 1, Len(avail))
               /\ se_buf' = [j \in 0 .. (HostFrameLen - 1) |-> JavaByte(avail[j + 1])]
               /\ se_i' = 0
               /\ se_pc' = "add"
               /\ nDecoded' = nDecoded + 1
  /\ UNCHANGED << isSerialReady, rawAccels, accels, accelLists, accelMeasureList,
                  timestamp, isAccelMeasure, isRealtimeRec, stream, nCleared,
                  appended, console, keyVars, evVars, fwVars >>

\* rawAccels, accels, _a = new Accel(...); accelLists.get(i).add(_a)
se_add ==
  /\ se_pc = "add"
  /\ rawAccels' = DecodeSensor(se_buf, se_i)
  /\ accels' = convertRawAccel(DecodeSensor(se_buf, se_i))
  /\ accelLists' = [accelLists EXCEPT ![se_i] = Append(@, SeAccel)]
  /\ appended' = [appended EXCEPT ![se_i] = Append(@, SeAccel)]
  /\ se_pc' = "trim"
  /\ UNCHANGED << wire, inBuf, isSerialReady, accelMeasureList, timestamp,
                  isAccelMeasure, isRealtimeRec, nanoTime, stream, nDecoded,
                  nCleared, se_i, se_buf, console, keyVars, evVars, fwVars >>

\* if (size() > DATA_LEN) remove(0);
\* if (i == measurementSensor && (isAccelMeasure || isRealtimeRec))
se_trim ==
  /\ se_pc = "trim"
  /\ accelLists' = [accelLists EXCEPT ![se_i] = Evict(@)]
  /\ IF se_i = measurementSensor /\ (isAccelMeasure \/ isRealtimeRec)
       THEN se_pc' = "rec_add" /\ UNCHANGED << se_i, se_buf >>
       ELSE SeNext
  /\ UNCHANGED << wire, inBuf, isSerialReady, rawAccels, accels,
                  accelMeasureList, timestamp, isAccelMeasure, isRealtimeRec,
                  nanoTime, stream, nDecoded, nCleared, appended, console,
                  keyVars, evVars, fwVars >>

\* accelMeasureList.add(_a)
se_rec_add ==
  /\ se_pc = "rec_add"
  /\ accelMeasureList' = Append(accelMeasureList, SeAccel)
  /\ se_pc' = "rec_ts"
  /\ UNCHANGED << wire, inBuf, isSerialReady, rawAccels, accels, accelLists,
                  timestamp, isAccelMeasure, isRealtimeRec, nanoTime, stream,
                  nDecoded, nCleared, appended, se_i, se_buf, console,
                  keyVars, evVars, fwVars >>

\* timestamp.add((int)(System.nanoTime() / 1000))
se_rec_ts ==
  /\ se_pc = "rec_ts"
  /\ timestamp' = Append(timestamp, Int32(nanoTime))
  /\ SeNext
  /\ UNCHANGED << wire, inBuf, isSerialReady, rawAccels, accels, accelLists,
                  accelMeasureList, isAccelMeasure, isRealtimeRec, nanoTime,
                  stream, nDecoded, nCleared, appended, console, keyVars,
                  evVars, fwVars >>

(***************************************************************************)
(* keyPressed for the keys 'r' and 'o', statement by statement. It runs on *)
(* the animation thread, between two calls of draw().                      *)
(***************************************************************************)
KeyReady ==
  /\ key_pc = "idle"
  /\ keyFault = "none"
  /\ ev_by # "draw"
  /\ nkeys < MaxKeys

\* What is written to the file: nothing once it is closed.
WriteRow(rows, row) ==
  IF accelOutputWriter = "open" THEN Append(rows, row) ELSE rows

\* key == 'r': the test of isAccelMeasure, println, createWriter
key_r ==
  /\ KeyReady
  /\ nkeys' = nkeys + 1
  /\ IF isAccelMeasure
       THEN /\ console' = Append(console, [src |-> "keyPressed",
                                          text |-> "Now running play and recording"])
            /\ UNCHANGED << accelOutputWriter, outRows, key_pc >>
       ELSE /\ console' = Append(console, [src |-> "keyPressed",
                                          text |-> "realtime recording start"])
            /\ accelOutputWriter' = "open"
            /\ outRows' = << >>
            /\ key_pc' = "r_list"
  /\ UNCHANGED << key_i, keyFault, hostData, seVars, evVars, fwVars >>

\* accelMeasureList = new ArrayList<Accel>()
key_r_list ==
  /\ key_pc = "r_list"
  /\ accelMeasureList' = << >>
  /\ key_pc' = "r_ts"
  /\ UNCHANGED << wire, inBuf, isSerialReady, rawAccels, accels, accelLists,
                  timestamp, isAccelMeasure, isRealtimeRec, nanoTime, stream,
                  nDecoded, nCleared, appended, console, accelOutputWriter,
                  outRows, key_i, keyFault, nkeys, seVars, evVars, fwVars >>

\* timestamp = new ArrayList<Integer>()
key_r_ts ==
  /\ key_pc = "r_ts"
  /\ timestamp' = << >>
  /\ key_pc' = "r_flag"
  /\ UNCHANGED << wire, inBuf, isSerialReady, rawAccels, accels, accelLists,
                  accelMeasureList, isAccelMeasure, isRealtimeRec, nanoTime,
                  stream, nDecoded, nCleared, appended, console,
                  accelOutputWriter, outRows, key_i, keyFault, nkeys, seVars,
                  evVars, fwVars >>

\* isRealtimeRec = true
key_r_flag ==
  /\ key_pc = "r_flag"
  /\ isRealtimeRec' = TRUE
  /\ key_pc' = "idle"
  /\ UNCHANGED << wire, inBuf, isSerialReady, rawAccels, accels, accelLists,
                  accelMeasureList, timestamp, isAccelMeasure, nanoTime,
                  stream, nDecoded, nCleared, appended, console,
                  accelOutputWriter, outRows, key_i, keyFault, nkeys, seVars,
                  evVars, fwVars >>

\* key == 'o': the test of isAccelMeasure, println, isRealtimeRec = false,
\* accelOutputWriter.println(header), which throws when no file was ever
\* created.
key_o ==
  /\ KeyReady
  /\ nkeys' = nkeys + 1
  /\ IF isAccelMeasure
       THEN /\ console' = Append(console, [src |-> "keyPressed",
                                          text |-> "Now running play and recording"])
            /\ UNCHANGED << isRealtimeRec, outRows, key_pc, key_i, keyFault >>
       ELSE /\ console' = Append(console, [src |-> "keyPressed",
                                          text |-> "realtime recording ended"])
            /\ isRealtimeRec' = FALSE
            /\ IF accelOutputWriter = "null"
                 THEN /\ keyFault' = "NullPointerException"
                      /\ UNCHANGED << outRows, key_pc, key_i >>
                 ELSE /\ outRows' = WriteRow(outRows, << "timestamp", "az" >>)
                      /\ key_i' = 0
                      /\ key_pc' = "o_row"
                      /\ UNCHANGED keyFault
  /\ UNCHANGED << wire, inBuf, isSerialReady, rawAccels, accels, accelLists,
                  accelMeasureList, timestamp, isAccelMeasure, nanoTime,
                  stream, nDecoded, nCleared, appended, accelOutputWriter,
                  seVars, evVars, fwVars >>

\* One pass of the output loop, or its end and accelOutputWriter.close().
key_o_row ==
  /\ key_pc = "o_row"
  /\ IF key_i < Len(timestamp)
       THEN IF key_i >= Len(accelMeasureList)
              THEN /\ keyFault' = "IndexOutOfBoundsException"
                   /\ key_pc' = "idle"
                   /\ key_i' = 0
                   /\ UNCHANGED << outRows, accelOutputWriter >>
              ELSE /\ outRows' = WriteRow(outRows,
                        << timestamp[key_i + 1], accelMeasureList[key_i + 1].az >>)
                   /\ key_i' = key_i + 1
                   /\ UNCHANGED << key_pc, keyFault, accelOutputWriter >>
       ELSE /\ accelOutputWriter' = "closed"
            /\ key_pc' = "idle"
            /\ key_i' = 0
            /\ UNCHANGED << outRows, keyFault >>
  /\ UNCHANGED << nkeys, hostData, console, seVars, evVars, fwVars >>


(***************************************************************************)
(* The streams the host is fed: frames as sendData builds them, whole or   *)
(* with one byte of one frame complemented or lost on the way, or with one  *)
(* whole frame lost ("skip": frame st.frame and the later ones carry the   *)
(* sequence number after the one they would have had).                     *)
(***************************************************************************)
SampleSet(n) == [i \in Sensors |-> Signal(n, i)]
FrameBytes(seq, samples) == WriteBytes(EncodeFrame(seq, samples), DATA_LEN)

\* Offsets in a frame where the damage is done: the first and the last
\* payload byte, and the footer.
DamageOffsets == {ACC_HEADER, payload_end - 1, DATA_LEN - 1}

Damaged(bytes, kind, off) ==
  IF kind = "flip"
    THEN [k \in 1 .. Len(bytes) |-> IF k = off + 1 THEN 255 - bytes[k] ELSE bytes[k]]
  ELSE IF kind = "drop"
    THEN SubSeq(bytes, 1, off) \o SubSeq(bytes, off + 2, Len(bytes))
  ELSE bytes

RECURSIVE WireOf(_, _)
WireOf(st, n) ==
  IF n = 0 THEN << >>
  ELSE WireOf(st, n - 1) \o
       Damaged(FrameBytes((st.seq0 + n - 1 +
                            (IF st.kind = "skip" /\ n >= st.frame THEN 1 ELSE 0))
                           % 65536,
                          st.samples[n]),
               IF st.frame = n THEN st.kind ELSE "none", st.off)

\* nf consecutive frames of the signal from invocation n0 on.
Streams ==
  UNION { { [samples |-> [j \in 1 .. nf |-> SampleSet(n0 + j - 1)],
             seq0 |-> q, kind |-> d[1], frame |-> d[2], off |-> d[3]] :
            n0 \in 0 .. 3,
            q \in {0, 10, 65535},
            d \in {<<"none", 0, 0>>} \cup
                  ({"flip", "drop"} \X (1 .. nf) \X DamageOffsets) \cup
                  ({"skip"} \X (2 .. nf) \X {0}) } :
          nf \in 1 .. MaxFrames }

NoStream == [samples |-> << >>, seq0 |-> 0, kind |-> "none", frame |-> 0, off |-> 0]

\* Sizes of the pieces in which the bytes reach the port.
Chunks == {1, HostFrameLen, DATA_LEN}

(***************************************************************************)
(* Specifications.                                                         *)
(*   Spec      the firmware: timer callback, command loop, host commands.  *)
(*   EncSpec   the timer callback alone on a streaming device, over the    *)
(*             wide range of sensor counts.                                *)
(*   HostSpec  the host fed with a stream of frames.                       *)
(*   QdSpec    draw() evaluating full histories of a vibrating sensor.     *)
(*   RecSpec   the serial thread decoding a stream while keys start and   *)
(*             stop a recording.                                           *)
(*   EvalSpec  the serial thread decoding a stream while draw() and the    *)
(*             sweep started by 'q' run the detector.                      *)
(*   FrameSpec whole calls of serialEvent between the steps of the keys    *)
(*             that start and stop a recording.                            *)
(*   ClockSpec RecSpec over a session long enough for the microsecond     *)
(*             clock to pass 2^31.                                         *)
(*   DecodeSpec the serial thread from before setup() on, fed in pieces of *)
(*             one byte short of a host buffer or of one device frame,     *)
(*             with draw().                                                *)
(***************************************************************************)
HostIdle == HostStart /\ wire = << >> /\ stream = NoStream

\* A fresh boot, or a device that has streamed 65535 frames and still is.
Init ==
  /\ \/ FwAfter(0, FALSE, {Sensors, {}})
     \/ FwAfter(65535, TRUE, {Sensors})
  /\ HostIdle

Next ==
  \/ (Isr /\ UNCHANGED << hostVars, dacVars >>)
  \/ (Loop /\ UNCHANGED << hostVars, dacVars >>)
  \/ (HostSends /\ UNCHANGED << hostVars, dacVars >>)

Spec == Init /\ [][Next]_vars

EncInit ==
  /\ \E n \in {0, 255, 256, 65535} : FwAfter(n, TRUE, {Sensors})
  /\ HostIdle

EncNext ==
  /\ \/ sendData_enter(MaxEncTicks)
     \/ sendData_select
     \/ sendData_read(WideTriples)
     \/ sendData_write
  /\ UNCHANGED << hostVars, dacVars >>

EncSpec == EncInit /\ [][EncNext]_vars

HostInit ==
  /\ FwAfter(0, FALSE, {Sensors})
  /\ HostStart
  /\ stream \in Streams
  /\ wire = WireOf(stream, Len(stream.samples))

HostNext ==
  \/ host_setup
  \/ \E k \in Chunks : host_serialEvent(k)

HostSpec == HostInit /\ [][HostNext]_vars

\* The largest amplitude, in counts, of the windows the detector is fed.
MaxAmp == 3

\* The history of a sensor that vibrates at the stimulus frequency with
\* amplitude A counts around g counts, ph quarter cycles ahead of SS.
SineWindow(A, ph, g) ==
  [i \in 1 .. HOST_DATA_LEN |->
     Accel(<< 0, 0, A * QuarterSine[((i - 1 + ph) % SamplesPerCycle) + 1] + g >>)]

\* The sketch with full histories, nothing arriving: sensor i is i quarter
\* cycles ahead of sensor 0.
QdInit ==
  /\ FwAfter(0, FALSE, {Sensors})
  /\ wire = << >>
  /\ stream = NoStream
  /\ \E A \in 0 .. MaxAmp, ph \in 0 .. (SamplesPerCycle - 1), g \in {0, MaxAmp} :
       HostRunning([i \in 0 .. (SENSOR_NUM - 1) |-> SineWindow(A, ph + i, g)])

QdNext == draw_begin \/ draw_check \/ calc_read \/ calc_return

QdSpec == QdInit /\ [][QdNext]_vars

\* Frames of the stream the running sketch is fed.
MaxRunFrames == 5

\* An undamaged stream of MaxRunFrames frames from sequence number 0.
RunStream ==
  [samples |-> [j \in 1 .. MaxRunFrames |-> SampleSet(j - 1)],
   seq0 |-> 0, kind |-> "none", frame |-> 0, off |-> 0]

\* The sketch after setup(), the stream on its way.
RunInit ==
  /\ FwAfter(0, FALSE, {Sensors})
  /\ stream = RunStream
  /\ wire = WireOf(RunStream, MaxRunFrames)
  /\ HostRunning([i \in 0 .. (SENSOR_NUM - 1) |-> << >>])

SerialThread ==
  \/ se_arrive(HostFrameLen)
  \/ se_add
  \/ se_trim
  \/ se_rec_add
  \/ se_rec_ts

RecNext ==
  \/ SerialThread
  \/ key_r
  \/ key_r_list
  \/ key_r_ts
  \/ key_r_flag
  \/ key_o
  \/ key_o_row

RecSpec == RunInit /\ [][RecNext]_vars

\* No recording is started here, so serialEvent never enters its recording
\* branch.
EvalNext ==
  \/ se_arrive(HostFrameLen)
  \/ se_add
  \/ se_trim
  \/ draw_begin
  \/ draw_check
  \/ calc_read
  \/ calc_return
  \/ key_q
  \/ sweep_begin
  \/ sweep_amp
  \/ sweep_delay
  \/ sweep_call

EvalSpec == RunInit /\ [][EvalNext]_vars

\* Calls of serialEvent that no key handler overlaps.
FrameNext ==
  \/ host_serialEvent(HostFrameLen)
  \/ key_r
  \/ key_r_list
  \/ key_r_ts
  \/ key_r_flag
  \/ key_o
  \/ key_o_row

FrameSpec == RunInit /\ [][FrameNext]_vars

\* Times the clock is let run for 2^31 - 1 microseconds (35.8 minutes)
\* between two steps of the sketch.
MaxClockRuns == 1

\* Time passes: System.nanoTime() / 1000 is INT_MAX microseconds later.
clock_runs ==
  /\ nanoTime.hi < MaxClockRuns
  /\ nanoTime' = ClockAdd(nanoTime, INT_MAX)
  /\ UNCHANGED << wire, inBuf, isSerialReady, rawAccels, accels, accelLists,
                  accelMeasureList, timestamp, isAccelMeasure, isRealtimeRec,
                  stream, nDecoded, nCleared, appended, console, keyVars,
                  seVars, evVars, fwVars >>

ClockNext == RecNext \/ clock_runs

ClockSpec == RunInit /\ [][ClockNext]_vars

\* The sketch from the construction of the Serial object on, the stream
\* arriving in pieces, draw() running once setup() is over.
DecodeInit ==
  /\ FwAfter(0, FALSE, {Sensors})
  /\ HostStart
  /\ stream = RunStream
  /\ wire = WireOf(RunStream, MaxRunFrames)

\* Sizes of the pieces one serial event may deliver here: one byte short of
\* a host buffer, and a whole device frame.
DecodeChunks == {HostFrameLen - 1, DATA_LEN}

DecodeNext ==
  \/ host_setup
  \/ \E k \in DecodeChunks : se_arrive(k)
  \/ se_add
  \/ se_trim
  \/ (isSerialReady /\ draw_begin)
  \/ draw_check
  \/ calc_read
  \/ calc_return

DecodeSpec == DecodeInit /\ [][DecodeNext]_vars


(***************************************************************************)
(* What is read off the transport.                                         *)
(***************************************************************************)
\* The writes sendData made, in order.
FramesOf(log) == SelectSeq(log, LAMBDA w : w.src = "sendData")
\* 1 while an invocation of sendData has taken its sequence number and
\* not yet written.
InFlight == IF isr_pc = "idle" THEN 0 ELSE 1
\* The 16-bit big-endian field at offset off (0-based) of a byte sequence.
Field16(bytes, off) == bytes[off + 1] * 256 + bytes[off + 2]
\* A 16-bit two's complement pattern of a signed count.
Pattern16(v) == IF v < 0 THEN v + 65536 ELSE v
RECURSIVE SumOfPrefix(_, _)
SumOfPrefix(bytes, n) == IF n = 0 THEN 0 ELSE SumOfPrefix(bytes, n - 1) + bytes[n]

(***************************************************************************)
(* C1. Whatever the interleaving of the timer callback with the command    *)
(* loop and the arrival of 's', 'e', 'r', every write sendData makes is a  *)
(* whole frame of 3 + 6*IMU_NUM + 3 bytes, header first and footer last,   *)
(* and an invocation makes at most one write; while an invocation is under *)
(* way nothing of its frame is on the transport yet.                       *)
(***************************************************************************)
C1_WholeFrames ==
  /\ \A k \in 1 .. Len(tx) :
       tx[k].src = "sendData" =>
         /\ Len(tx[k].bytes) = 3 + 6 * IMU_NUM + 3
         /\ tx[k].bytes[1] = 127
         /\ tx[k].bytes[Len(tx[k].bytes)] = 254
  /\ Len(FramesOf(tx)) + InFlight <= ticks
  /\ Len(FramesOf(tx)) = Len(reads)

\* A frame has been written and the next invocation has built its own and
\* is about to write it, while a stop command that arrived in the meantime
\* waits for loop().
C1_Witness ==
  /\ Len(FramesOf(tx)) >= 1
  /\ isr_pc = "write"
  /\ rx # << >>
  /\ Head(rx) = CMD_E

(***************************************************************************)
(* C2. An invocation of sendData that finds active false writes nothing    *)
(* and leaves g_seq and send_data as they were.                            *)
(***************************************************************************)
C2_InactiveTickNoEffect ==
  [][ (ticks' = ticks + 1 /\ ~active) =>
        (tx' = tx /\ g_seq' = g_seq /\ send_data' = send_data /\ isr_pc' = "idle")
    ]_vars

\* Invocations have happened and none wrote or took a sequence number.
C2_Witness ==
  /\ ticks >= 1
  /\ isr_pc = "idle"
  /\ tx = << >>
  /\ ~active

(***************************************************************************)
(* C3. Consecutive frames carry consecutive sequence numbers mod 65536,    *)
(* and the counter is ahead of the first frame's number by exactly the     *)
(* number of active invocations: inactive invocations and the commands     *)
(* neither consume nor reset sequence numbers.                             *)
(***************************************************************************)
C3_SeqAdvancesOnce ==
  LET F == FramesOf(tx)
  IN /\ \A k \in 1 .. (Len(F) - 1) :
          Field16(F[k + 1].bytes, 1) = (Field16(F[k].bytes, 1) + 1) % 65536
     /\ g_seq \in 0 .. 65535
     /\ F # << >> => g_seq = (Field16(F[1].bytes, 1) + Len(F) + InFlight) % 65536

\* Frames 65535 and 0 with a stop, an inactive invocation and a restart in
\* between.
C3_Witness ==
  LET F == FramesOf(tx)
  IN /\ Len(F) = 2
     /\ Field16(F[1].bytes, 1) = 65535
     /\ Field16(F[2].bytes, 1) = 0
     /\ ticks = 3
     /\ ncmds = 2

(***************************************************************************)
(* C4. Every frame sendData writes is 3 + 6N + 3 bytes: 0x7F, the sequence *)
(* number big-endian, the counts ax, ay, az of sensor 0 .. N-1 in that     *)
(* order as big-endian 16-bit two's complement, two checksum bytes, 0xFE.  *)
(***************************************************************************)
C4_FrameLayout ==
  \A k \in 1 .. Len(tx) :
    LET b == tx[k].bytes
        first == (g_seq + 65536 - ((Len(reads) + InFlight) % 65536)) % 65536
    IN /\ Len(b) = 3 + 6 * IMU_NUM + 3
       /\ \A j \in 1 .. Len(b) : b[j] \in 0 .. 255
       /\ b[1] = 127
       /\ Field16(b, 1) = (first + k - 1) % 65536
       /\ \A i \in 0 .. (IMU_NUM - 1) : \A a \in 0 .. 2 :
            Field16(b, 3 + 6 * i + 2 * a) = Pattern16(reads[k][i + 1][a + 1])
       /\ b[3 + 6 * IMU_NUM + 3] = 254

\* A frame carrying -32768, 32767 and counts whose low byte is >= 0x80.
C4_Witness ==
  \E k \in 1 .. Len(tx) :
    /\ reads[k][1] = <<-32768, 32767, -129>>
    /\ reads[k][IMU_NUM] = <<100, -100, 16384>>

(***************************************************************************)
(* C5. In every frame the checksum field, read big-endian, is the sum of   *)
(* the bytes from the header through the last payload byte mod 65536; the  *)
(* frame of seq 0 with sensor 0 at (100, -100, 16384) and the others at    *)
(* rest carries 702.                                                       *)
(***************************************************************************)
C5_Checksum ==
  \A k \in 1 .. Len(tx) :
    LET b == tx[k].bytes
    IN /\ Field16(b, 3 + 6 * IMU_NUM) = SumOfPrefix(b, 3 + 6 * IMU_NUM) % 65536
       /\ ( /\ Field16(b, 1) = 0
            /\ reads[k][1] = <<100, -100, 16384>>
            /\ \A i \in 2 .. IMU_NUM : reads[k][i] = <<0, 0, 0>> )
          => Field16(b, 3 + 6 * IMU_NUM) = 702

C5_Witness ==
  \E k \in 1 .. Len(tx) :
    /\ Field16(tx[k].bytes, 1) = 0
    /\ reads[k][1] = <<100, -100, 16384>>
    /\ \A i \in 2 .. IMU_NUM : reads[k][i] = <<0, 0, 0>>
    /\ Field16(tx[k].bytes, 3 + 6 * IMU_NUM) = 702

(***************************************************************************)
(* C6. The command loop sets active from the byte it reads alone: 'e'      *)
(* makes it false, 'r' makes it true and starts no sensor initialisation,  *)
(* any other byte but 's' leaves it; 's' starts initializeSensors and      *)
(* active is true when that returns. Nothing else changes active.          *)
(***************************************************************************)
C6_CommandSetsActive ==
  [][ LET reading == rx # << >> /\ rx' = Tail(rx)
          chr == Head(rx)
          initReturns == loop_pc # "poll" /\ loop_pc' = "poll"
      IN /\ (reading /\ chr = 101) => (active' = FALSE /\ loop_pc' = "poll")
         /\ (reading /\ chr = 114) =>
              /\ active' = TRUE
              /\ loop_pc' = "poll"
              /\ UNCHANGED << accelScale, gyroScale, regs, cs_low >>
         /\ (reading /\ chr \notin {115, 101, 114}) =>
              (active' = active /\ loop_pc' = "poll")
         /\ (reading /\ chr = 115) => loop_pc' # "poll"
         /\ initReturns => active' = TRUE
         /\ (~reading /\ ~initReturns) => active' = active
    ]_vars

\* 'r' has started the stream on a device whose sensors were never
\* configured, and they still are not.
C6_Witness ==
  /\ active
  /\ rx = << >>
  /\ ncmds >= 1
  /\ nfaults = 0
  /\ loop_pc = "poll"
  /\ \A i \in Sensors : regs[i] = << 0, 0, 0 >>

(***************************************************************************)
(* C7. Handling a command never writes to the transport: every write on    *)
(* the serial link after setup() is a frame written by sendData.           *)
(***************************************************************************)
C7_OnlyFramesOnLink ==
  \A k \in 1 .. Len(tx) : tx[k].src = "sendData"


(***************************************************************************)
(* C8. Round trip: what the host decodes from the frames sendData built    *)
(* is, sensor by sensor, the counts that were encoded. Stated of a whole   *)
(* stream that reached a ready host undamaged: the n-th buffer decoded     *)
(* gives every sensor the sample of the n-th frame.                        *)
(***************************************************************************)
C8_RoundTrip ==
  ( /\ stream.kind = "none"
    /\ nCleared = 0
    /\ nDecoded \in 1 .. Len(stream.samples) )
  => \A i \in Sensors :
       /\ accelLists[i] # << >>
       /\ accelLists[i][Len(accelLists[i])] = Accel(stream.samples[nDecoded][i])

(***************************************************************************)
(* C9. A frame whose checksum does not match, or whose footer is not the   *)
(* footer constant, is rejected: a stream that consists of one such frame  *)
(* appends nothing to any history nor to the recording buffer.             *)
(***************************************************************************)
C9_RejectsDamagedFrames ==
  ( /\ Len(stream.samples) = 1
    /\ stream.kind = "flip" )
  => /\ \A i \in Sensors : accelLists[i] = << >>
     /\ accelMeasureList = << >>
     /\ timestamp = << >>

(***************************************************************************)
(* C10. Resynchronisation: when a stream with one payload byte damaged or  *)
(* lost has arrived in full at a ready host and less than a frame is left  *)
(* in the port, every history ends with the samples of the well-formed     *)
(* frames that followed the damaged one, in order.                         *)
(***************************************************************************)
C10_Resynchronizes ==
  LET nf == Len(stream.samples)
      m == IF nf - stream.frame < HOST_DATA_LEN THEN nf - stream.frame
           ELSE HOST_DATA_LEN
  IN ( /\ stream.kind \in {"flip", "drop"}
       /\ stream.off < payload_end
       /\ nCleared = 0
       /\ wire = << >>
       /\ Len(inBuf) < HostFrameLen )
     => \A i \in Sensors :
          /\ Len(accelLists[i]) >= m
          /\ \A j \in 1 .. m :
               accelLists[i][Len(accelLists[i]) - j + 1]
                 = Accel(stream.samples[nf - j + 1][i])

(***************************************************************************)
(* What a step is: one of the command loop (loop() and what it calls) or    *)
(* one of the timer callback.                                               *)
(***************************************************************************)
LoopStep ==
  /\ isr_pc = "idle"
  /\ isr_pc' = "idle"
  /\ ticks' = ticks
  /\ ncmds' = ncmds
  /\ << rx, loop_pc, loop_i, loop_reg >> # << rx', loop_pc', loop_i', loop_reg' >>
IsrStep == ticks' = ticks + 1 \/ isr_pc # "idle"

(***************************************************************************)
(* C15. g_seq and send_data are written by the timer callback only: no     *)
(* step of the command loop, initializeSensors included, changes either;   *)
(* active is written by the command loop only.                             *)
(***************************************************************************)
C15_WritersOfSharedState ==
  [][ /\ LoopStep => (g_seq' = g_seq /\ send_data' = send_data)
      /\ (g_seq' # g_seq \/ send_data' # send_data) => IsrStep
      /\ active' # active => (LoopStep /\ ~IsrStep)
    ]_vars

\* A frame has been written, then 's' was handled with a sensor that did
\* not answer: initializeSensors has run and reported, and the counter and
\* the buffer still hold what the invocation left.
C15_Witness ==
  /\ Len(tx) >= 2
  /\ tx[1].src = "sendData"
  /\ tx[Len(tx)].src = "begin"
  /\ loop_pc = "poll"
  /\ active
  /\ ticks = 1
  /\ g_seq = 1
  /\ send_data = [k \in 0 .. (DATA_LEN - 1) |-> tx[1].bytes[k + 1]]

(***************************************************************************)
(* C16 as the specification states it. Handling a command changes nothing  *)
(* but active: no register, no stored scale, no chip select and nothing on *)
(* the serial link changes in a step of the command loop.                  *)
(***************************************************************************)
C16_OnlyActiveChanges ==
  [][ LoopStep =>
        UNCHANGED << g_seq, send_data, tx, accelScale, gyroScale, regs, cs_low >>
    ]_vars

(***************************************************************************)
(* C16 as the code has it. 'e', 'r' and bytes that are no command change   *)
(* nothing but active. 's' runs initializeSensors before it sets active:   *)
(* each sensor's WHO_AM_I is read; a sensor that answers 0x6A gets the     *)
(* scales 16 g / 2000 dps stored and CTRL1_XL = 0x84, CTRL2_G = 0x6C,      *)
(* CTRL3_C = 0x44 written, one that does not keeps its registers and       *)
(* scales and has the mismatch text written to the serial link. g_seq and  *)
(* send_data are not touched by any command.                               *)
(***************************************************************************)
C16_StartReinitializes ==
  [][ LET reading == LoopStep /\ rx # << >> /\ rx' = Tail(rx)
          chr == Head(rx)
      IN /\ (reading /\ chr # 115) =>
              /\ UNCHANGED << g_seq, send_data, tx, accelScale, gyroScale,
                              regs, cs_low >>
              /\ loop_pc' = "poll"
         /\ (reading /\ chr = 115) =>
              /\ UNCHANGED << active, g_seq, send_data, tx, accelScale,
                              gyroScale, regs, cs_low >>
              /\ loop_pc' # "poll"
         /\ LoopStep => (g_seq' = g_seq /\ send_data' = send_data)
         /\ (LoopStep /\ regs' # regs) =>
              /\ whoami = 106
              /\ \A i \in Sensors : i # loop_i => regs'[i] = regs[i]
              /\ \A r \in 1 .. 3 :
                   regs'[loop_i][r] \in {regs[loop_i][r], << 132, 108, 68 >>[r]}
         /\ (LoopStep /\ << accelScale, gyroScale >> # << accelScale', gyroScale' >>) =>
              /\ whoami' = 106
              /\ accelScale' = [accelScale EXCEPT ![loop_i] = 4]
              /\ gyroScale' = [gyroScale EXCEPT ![loop_i] = 12]
         /\ (LoopStep /\ tx' # tx) => (whoami # 106 /\ regs' = regs)
         /\ (LoopStep /\ loop_pc # "poll" /\ loop_pc' = "poll") =>
              (active' /\ cs_low' = {})
    ]_vars

\* 's' has been handled on a device whose sensors were not configured:
\* the first answered and is configured now, the last did not and is as it
\* was, and the stream is on.
C16_Witness ==
  /\ loop_pc = "poll"
  /\ active
  /\ regs[0] = << 132, 108, 68 >>
  /\ accelScale[0] = 4
  /\ regs[IMU_NUM - 1] = << 0, 0, 0 >>
  /\ accelScale[IMU_NUM - 1] = 0
  /\ nfaults = 1

(***************************************************************************)
(* C11. The host reports a gap in the sequence numbers: when a stream in   *)
(* which one frame was lost between two others has been received in full   *)
(* by a ready host, serialEvent has reported one gap; when no frame was    *)
(* lost, the wrap 65535 -> 0 included, it has reported none.               *)
(***************************************************************************)
C11_ReportsSeqGaps ==
  ( /\ isSerialReady
    /\ nCleared = 0
    /\ stream.kind \in {"none", "skip"}
    /\ wire = << >>
    /\ Len(inBuf) < HostFrameLen
    /\ nDecoded >= 2 )
  => LET reports == SelectSeq(console, LAMBDA l : l.src = "serialEvent")
     IN Len(reports) = (IF stream.kind = "skip" THEN 1 ELSE 0)

(***************************************************************************)
(* C14. Every result of the detector on a window that is a pure sine of    *)
(* amplitude A and phase 0 at the stimulus frequency over a whole number   *)
(* of cycles has amplitude A and phase 0; on an all-zero window the        *)
(* amplitude is 0. An Accel field of c counts is c * 3136 (over 655360),   *)
(* and the amplitude is held as its numerator over the window length.      *)
(***************************************************************************)
C14_DetectsSine ==
  \A k \in 1 .. Len(qd_out) :
    LET r == qd_out[k]
        W == Len(appended[r.sid])
        win == appended[r.sid]
    IN /\ \A A \in 0 .. MaxAmp :
            ( /\ W % 4 = 0
              /\ \A i \in 1 .. W :
                   win[i].az = A * << 0, 1, 0, -1 >>[((i - 1) % 4) + 1] * 3136 )
            => (r.amp = A * 3136 * W /\ r.phase = "0")
       /\ (\A i \in 1 .. W : win[i].az = 0) => r.amp = 0

\* The detector has returned amplitude MaxAmp and phase 0 on the window of
\* sensor 0, a sine of amplitude MaxAmp counts and phase 0.
C14_Witness ==
  \E k \in 1 .. Len(qd_out) :
    /\ qd_out[k].sid = 0
    /\ qd_out[k].amp = MaxAmp * 3136 * HOST_DATA_LEN
    /\ qd_out[k].phase = "0"
    /\ MaxAmp > 0
    /\ \A i \in 1 .. HOST_DATA_LEN :
         appended[0][i].az = MaxAmp * << 0, 1, 0, -1 >>[((i - 1) % 4) + 1] * 3136

(***************************************************************************)
(* C12. Ring store: once an append to a sensor's history has completed,    *)
(* the history holds the last min(k, W) of the k samples appended to it,   *)
(* in the order they were appended.                                        *)
(***************************************************************************)
C12_RingFIFO ==
  \A i \in 0 .. (IMU_NUM - 1) :
    ~(se_pc = "trim" /\ se_i = i) =>
      LET k == Len(appended[i])
          n == IF k < HOST_DATA_LEN THEN k ELSE HOST_DATA_LEN
      IN /\ Len(accelLists[i]) = n
         /\ \A j \in 1 .. n : accelLists[i][j] = appended[i][k - n + j]

\* W + 1 samples have been appended to the history of sensor 0, the first
\* and the last of them different, and it holds the last W.
C12_Witness ==
  /\ se_pc = "idle"
  /\ Len(appended[0]) = HOST_DATA_LEN + 1
  /\ Len(accelLists[0]) = HOST_DATA_LEN
  /\ accelLists[0][1] = appended[0][2]
  /\ accelLists[0][1] # appended[0][1]
  /\ accelLists[0][HOST_DATA_LEN] = appended[0][HOST_DATA_LEN + 1]
  /\ accelLists[0][HOST_DATA_LEN] # appended[0][HOST_DATA_LEN]

(***************************************************************************)
(* The rows a stop writes for the buffers ts and al: the header, then one  *)
(* row per timestamp with the az of the sample at the same index.          *)
(***************************************************************************)
RowsOf(ts, al) ==
  << << "timestamp", "az" >> >> \o [i \in 1 .. Len(ts) |-> << ts[i], al[i].az >>]
StopCompletes == key_pc = "o_row" /\ key_pc' = "idle" /\ keyFault' = "none"

(***************************************************************************)
(* C13. A start empties the recorded samples and the timestamps before it  *)
(* makes recording active; a stop makes recording inactive, writes every   *)
(* (timestamp, sample) pair in order, and leaves both buffers empty.       *)
(***************************************************************************)
C13_StopClearsBuffers ==
  [][ /\ (key_pc = "r_list" /\ key_pc' # key_pc) => accelMeasureList' = << >>
      /\ (key_pc = "r_ts" /\ key_pc' # key_pc) => timestamp' = << >>
      /\ (isRealtimeRec' /\ ~isRealtimeRec) => key_pc = "r_flag"
      /\ StopCompletes =>
           /\ ~isRealtimeRec'
           /\ accelOutputWriter = "open" =>
                outRows' = RowsOf(timestamp, accelMeasureList)
           /\ accelMeasureList' = << >>
           /\ timestamp' = << >>
    ]_vars

(***************************************************************************)
(* C17. In every state, those between the add and the remove of an append  *)
(* included, no history is longer than W.                                  *)
(***************************************************************************)
C17_NeverLongerThanW ==
  \A i \in 0 .. (IMU_NUM - 1) : Len(accelLists[i]) <= HOST_DATA_LEN

(***************************************************************************)
(* C20. Start and stop of a recording are atomic for the decoder: the      *)
(* buffers a stop writes out have a timestamp for every sample, the stop   *)
(* never reads past the end of one of them, and once the file of a session *)
(* is closed and the decoder is idle every sample in the buffers is in the *)
(* file with its timestamp: none was appended after the stop had written.  *)
(***************************************************************************)
C20_AtomicStartStop ==
  /\ (key_pc = "o_row" /\ se_pc # "rec_ts") =>
       Len(accelMeasureList) = Len(timestamp)
  /\ keyFault # "IndexOutOfBoundsException"
  /\ (accelOutputWriter = "closed" /\ key_pc = "idle" /\ se_pc = "idle") =>
       /\ Len(accelMeasureList) = Len(timestamp)
       /\ Len(outRows) = 1 + Len(timestamp)
       /\ \A i \in 1 .. Len(timestamp) :
            outRows[i + 1] = << timestamp[i], accelMeasureList[i].az >>

(***************************************************************************)
(* C18. Snapshot-then-process: what one evaluation of calcSSandCCsum has   *)
(* read so far is a run of consecutive samples of the sensor's stream, as  *)
(* the history held them at one instant; appends and evictions meanwhile   *)
(* do not make it skip, repeat or shift samples.                           *)
(***************************************************************************)
C18_ReadsOneSnapshot ==
  ev_pc = "read" =>
    \E b \in 0 .. Len(appended[ev_sid]) :
      /\ b + Len(ev_vals) <= Len(appended[ev_sid])
      /\ \A j \in 1 .. Len(ev_vals) : ev_vals[j] = appended[ev_sid][b + j]

(***************************************************************************)
(* C19. calcSSandCCsum is only called on a history of at least W samples,  *)
(* from draw() and from the sweep alike, so that no al.get(i) with i in    *)
(* 0 .. W-1 is out of range and no thread ends by that exception.          *)
(***************************************************************************)
C19_DetectorHasFullWindow ==
  /\ ev_pc = "read" => Len(accelLists[ev_sid]) >= HOST_DATA_LEN
  /\ sweep_pc # "IndexOutOfBoundsException"
  /\ keyFault # "IndexOutOfBoundsException"

C22_TimestampsNonDecreasing ==
  \A i \in 1 .. (Len(timestamp) - 1) : timestamp[i] <= timestamp[i + 1]

(***************************************************************************)
(* Where a call of serialEvent is: the pass of its loop and the statement  *)
(* in the pass.                                                            *)
(***************************************************************************)
SePosition ==
  se_i * 4 + (CASE se_pc = "add" -> 0
                [] se_pc = "trim" -> 1
                [] se_pc = "rec_add" -> 2
                [] se_pc = "rec_ts" -> 3
                [] OTHER -> 0)
SeStatement == se_add \/ se_trim \/ se_rec_add \/ se_rec_ts

(***************************************************************************)
(* C23. serialEvent never blocks. A call that finds the sketch not ready,  *)
(* or fewer bytes than one buffer in the port, returns at once: it has     *)
(* taken no byte from the port and changed nothing. A call that reads a    *)
(* buffer has its next statement enabled in every state, whatever draw()   *)
(* is doing, and every statement takes it further down its loop, so that   *)
(* it returns after at most four statements per sensor.                    *)
(***************************************************************************)
C23_NeverBlocks ==
  /\ [](se_pc # "idle" => ENABLED SeStatement)
  /\ [][ /\ (se_pc = "idle" /\ wire' # wire) =>
              LET k == Len(wire) - Len(wire')
              IN IF ~isSerialReady \/ Len(inBuf) + k < HostFrameLen
                   THEN /\ se_pc' = "idle"
                        /\ inBuf' = inBuf \o SubSeq(wire, 1, k)
                        /\ UNCHANGED << isSerialReady, rawAccels, accels,
                                        accelLists, accelMeasureList, timestamp,
                                        isAccelMeasure, isRealtimeRec, nDecoded,
                                        appended, console, keyVars, evVars >>
                   ELSE /\ se_pc' # "idle"
                        /\ Len(inBuf') = Len(inBuf) + k - HostFrameLen
         /\ (se_pc # "idle" /\ << se_pc, se_i >> # << se_pc', se_i' >>) =>
              \/ se_pc' = "idle"
              \/ (se_pc' # "idle" /\ SePosition' > SePosition)
         /\ SePosition < 4 * SENSOR_NUM
       ]_vars

\* After setup(), bytes have arrived, too few for a buffer: the calls of
\* serialEvent have returned with the bytes left in the port and nothing
\* decoded.
C23_Witness ==
  /\ isSerialReady
  /\ nCleared = 0
  /\ se_pc = "idle"
  /\ Len(inBuf) = HostFrameLen - 1
  /\ nDecoded = 0
  /\ \A i \in 0 .. (SENSOR_NUM - 1) : accelLists[i] = << >>

(***************************************************************************)
(* C24. Drain: once the whole stream has reached the port of a ready       *)
(* sketch, no further byte arrives and serialEvent has returned, less than *)
(* one buffer is left in the port: every complete buffer has been read and *)
(* decoded, also when one serial event delivered more than one buffer's    *)
(* worth of bytes. (No serial event follows such a state: what is left in  *)
(* the port then stays there.)                                             *)
(***************************************************************************)
C24_DrainsAfterStop ==
  (isSerialReady /\ wire = << >> /\ se_pc = "idle") => Len(inBuf) < HostFrameLen

(***************************************************************************)
(* What a sweep over the settings 0 .. n - 1 calls, in order, the detected *)
(* amplitude left out of the rows; what it has called so far likewise.     *)
(***************************************************************************)
RECURSIVE SweepSteps(_)
SweepSteps(n) ==
  IF n = 0
    THEN << SweepOp("createWriter", << >>), SweepOp("println", << >>),
            SweepOp("sine.freq", << >>), SweepOp("sine.play", << >>),
            SweepOp("delay", << >>) >>
    ELSE SweepSteps(n - 1) \o
         << SweepOp("sine.amp", << n - 1 >>), SweepOp("delay", << >>),
            SweepOp("calcSSandCCsum", << >>), SweepOp("print", << n - 1 >>) >>
SweepWhole ==
  SweepSteps(MaxSweeps) \o << SweepOp("close", << >>), SweepOp("sine.stop", << >>) >>
SweepSoFar ==
  [k \in 1 .. Len(sweepOps) |->
     IF sweepOps[k].op = "print"
       THEN SweepOp("print", << sweepOps[k].arg[1] >>)
       ELSE sweepOps[k]]

(***************************************************************************)
(* C25. The sweep applies the settings in increasing order and, for each,  *)
(* applies it, waits, evaluates the detector and writes one row, in this   *)
(* order, none retried or skipped; the thread ends only after the last     *)
(* setting, having closed the file and stopped the stimulus.               *)
(***************************************************************************)
C25_SweepRunsToTheEnd ==
  /\ Len(sweepOps) <= Len(SweepWhole)
  /\ SweepSoFar = SubSeq(SweepWhole, 1, Len(sweepOps))
  /\ sweep_pc \in {"off", "begin", "test", "delay", "call", "calc", "done"}
  /\ sweep_pc = "done" => SweepSoFar = SweepWhole

(***************************************************************************)
(* C26. The detector is a pure function. SS and CC are written by setup()  *)
(* and by nothing else, and hold sine and cosine from then on; a statement *)
(* of calcSSandCCsum, detectPhase or detectAmp changes no history, no      *)
(* recording buffer, no table and nothing else of the sketch's data; and   *)
(* the amplitude and phase an evaluation returns are those of              *)
(* calcSSandCCsum, detectAmp and detectPhase on the values it read, so     *)
(* that two evaluations that read the same values return the same.         *)
(***************************************************************************)
C26_DetectorIsPure ==
  /\ [](isSerialReady =>
          /\ tableSS = [i \in 1 .. HOST_DATA_LEN |-> SS(i - 1)]
          /\ tableCC = [i \in 1 .. HOST_DATA_LEN |-> CC(i - 1)])
  /\ [][ /\ (tableSS' # tableSS \/ tableCC' # tableCC) =>
              (~isSerialReady /\ isSerialReady')
         /\ (ev_pc = "read" /\ << ev_pc, ev_i, ev_sid >> # << ev_pc', ev_i', ev_sid' >>) =>
              UNCHANGED << hostData, tableSS, tableCC, console >>
         /\ Len(qd_out') # Len(qd_out) =>
              LET c == calcSSandCCsum(ev_vals)
              IN qd_out' = Append(qd_out, [by |-> ev_by, sid |-> ev_sid,
                                           phase |-> detectPhase(c[1], c[2]),
                                           amp |-> detectAmp(c[1], c[2])])
       ]_vars

\* draw() has evaluated both sensors one after the other, the first with an
\* amplitude that is not 0, on histories that are still what it read.
C26_Witness ==
  /\ Len(qd_out) = 2
  /\ qd_out[1].sid = 0
  /\ qd_out[2].sid = 1
  /\ qd_out[1].amp # 0
  /\ qd_out[2].amp # qd_out[1].amp
  /\ qd_out[2].amp = detectAmp(calcSSandCCsum(accelLists[1])[1],
                               calcSSandCCsum(accelLists[1])[2])


(***************************************************************************)
(* C27. Bus mutual exclusion: the SPI bus carries one transaction at a      *)
(* time, so at most one chip-select line is low at any moment.  The timer   *)
(* callback's reads of the sensors and the command loop's re-initialisation *)
(* on 's' both make transactions; the claim asks that they never overlap,   *)
(* also when 's' arrives while the stream is active.                        *)
(***************************************************************************)
C27_OneChipSelectLow ==
  Cardinality(cs_low) <= 1

(***************************************************************************)
(* C28. Chip-select ownership: every chip-select pin belongs to exactly    *)
(* one SPI device, so a transaction addressed to one of the IMU_NUM        *)
(* sensors never asserts the chip select of the DAC: a sensor whose chip   *)
(* select is low is not on the DAC's pin.                                  *)
(***************************************************************************)
C28_SensorNeverSelectsDac ==
  \A i \in Sensors : CsPin(i) \in cs_low => CsPin(i) # dac_csPin

(***************************************************************************)
(* C29. A failed sensor initialisation leaves the sensor as it was.  When  *)
(* begin() reads a WHO_AM_I other than 0x6A, no step of the call changes a *)
(* configuration register or a stored scale, and the call returns false;   *)
(* when it reads 0x6A, the call returns true with both scales stored       *)
(* (16 g, 2000 dps) and CTRL1_XL = 0x84, CTRL2_G = 0x6C, CTRL3_C = 0x44    *)
(* written to the sensor it was called on.  begin() returns nowhere else.  *)
(***************************************************************************)
C29_BeginFailsClean ==
  [][ LoopStep =>
        LET reads_ == whoami = 0 /\ whoami' # 0
            returns == whoami # 0 /\ whoami' = 0
        IN /\ (reads_ /\ whoami' # 106) =>
                UNCHANGED << accelScale, gyroScale, regs >>
           /\ (whoami # 0 /\ whoami # 106) =>
                /\ UNCHANGED << accelScale, gyroScale, regs >>
                /\ returns => begin_ret' = FALSE
           /\ (returns /\ whoami = 106) =>
                /\ begin_ret' = TRUE
                /\ accelScale'[loop_i] = 4
                /\ gyroScale'[loop_i] = 12
                /\ regs'[loop_i] = << 132, 108, 68 >>
           /\ (begin_ret' # begin_ret) => returns
    ]_vars

\* initializeSensors on a device whose sensors were not configured: begin()
\* of sensor 0 succeeded, begin() of sensor 1 has just returned false and
\* sensor 1 still has the constructor's scales and untouched registers.
C29_Witness ==
  /\ loop_pc = "who_select"
  /\ loop_i = 2
  /\ begin_ret = FALSE
  /\ nfaults = 1
  /\ regs[0] = << 132, 108, 68 >>
  /\ accelScale[0] = 4
  /\ regs[1] = << 0, 0, 0 >>
  /\ accelScale[1] = 0
  /\ gyroScale[1] = 0

(***************************************************************************)
(* C30. Stopping a recording that is not running is harmless.  'o' pressed *)
(* when no recording is going on, or any of 'r' and 'o' pressed while a    *)
(* play-and-record measurement runs (isAccelMeasure), completes without a  *)
(* failure and leaves the recording flag, the recording buffers and the    *)
(* output writer as they were.                                             *)
(***************************************************************************)
C30_StopWithoutStartIsHarmless ==
  [][ LET pressed == nkeys' = nkeys + 1
          says(t) == console' = Append(console, [src |-> "keyPressed", text |-> t])
          harmless == /\ keyFault' = keyFault
                      /\ UNCHANGED << isRealtimeRec, accelMeasureList, timestamp,
                                      accelOutputWriter >>
      IN /\ (pressed /\ isAccelMeasure) => harmless
         /\ (pressed /\ ~isRealtimeRec /\ says("realtime recording ended")) => harmless
    ]_vars

(***************************************************************************)
(* The LTC1660 driver.  The firmware constructs the dac object and calls   *)
(* begin() in setup(); the other operations are the driver's interface,    *)
(* followed here in any order from the state setup() leaves.  sendWord     *)
(* drives the chip select low, clocks one 16-bit word and drives it high   *)
(* again within the operation.                                             *)
(***************************************************************************)
\* LTC1660 operations that are followed.
MaxDacOps == 3

DAC_ALL == 15
DAC_NO_CHANGE == 0
DAC_SLEEP == 14
\* enum DACChannel: DAC_A .. DAC_H are 1 .. 8.
DACChannel == (1 .. 8) \cup {DAC_ALL, DAC_NO_CHANGE, DAC_SLEEP}

\* Values given to writeDAC: zero, full scale, and one above full scale.
DacValues == {0, 1023, 1024}

\* word = (address & 0x0F) << 12 | (data & 0x3FF) << 2
buildWord(address, data) == ((address % 16) * 4096) + ((data % 1024) * 4)

\* The address bits A3..A0 of a word.
WordAddress(word) == word \div 4096

sendWord(address, data) ==
  dac_words' = Append(dac_words, buildWord(address, data))

\* The device: a word with the sleep address puts it to sleep, a word with
\* any other address wakes it; it is awake after power-on.
DacAsleep ==
  /\ dac_words # << >>
  /\ WordAddress(dac_words[Len(dac_words)]) = DAC_SLEEP

\* One call of an operation of the dac object from the main program.
DacCall(op) ==
  /\ ndac < MaxDacOps
  /\ ndac' = ndac + 1
  /\ dac_op' = op
  /\ UNCHANGED << active, g_seq, send_data, tx, rx, isrLocals, loopLocals,
                  sensorState, cs_low, ticks, ncmds, nfaults, hostVars >>

\* if (value > 1023) value = 1023; sendWord(channel, value);
\* if (channel != DAC_SLEEP) _isSleeping = false
writeDAC(channel, value) ==
  /\ sendWord(channel, IF value > 1023 THEN 1023 ELSE value)
  /\ isSleeping' = IF channel # DAC_SLEEP THEN FALSE ELSE isSleeping

LTC1660_begin ==
  /\ DacCall("begin")
  /\ isSleeping' = FALSE
  /\ UNCHANGED dac_words

LTC1660_writeDAC ==
  /\ DacCall("writeDAC")
  /\ \E channel \in DACChannel, value \in DacValues : writeDAC(channel, value)

LTC1660_sleep ==
  /\ DacCall("sleep")
  /\ sendWord(DAC_SLEEP, 0)
  /\ isSleeping' = TRUE

LTC1660_wake ==
  /\ DacCall("wake")
  /\ IF isSleeping
       THEN /\ sendWord(DAC_NO_CHANGE, 0)
            /\ isSleeping' = FALSE
       ELSE UNCHANGED << dac_words, isSleeping >>

LTC1660_clearAll ==
  /\ DacCall("clearAll")
  /\ writeDAC(DAC_ALL, 0)

DacInit ==
  /\ FwAfter(0, FALSE, {Sensors})
  /\ HostIdle

DacNext ==
  \/ LTC1660_begin
  \/ LTC1660_writeDAC
  \/ LTC1660_sleep
  \/ LTC1660_wake
  \/ LTC1660_clearAll

DacSpec == DacInit /\ [][DacNext]_vars

(***************************************************************************)
(* C31. The driver's sleep flag follows the device: after any sequence of  *)
(* begin, writeDAC on any channel (DAC_SLEEP included), sleep, wake and    *)
(* clearAll, _isSleeping is true exactly when the last word sent put the   *)
(* device to sleep; so wake() sends the wake word whenever the device is   *)
(* asleep and sends nothing when it is awake.                              *)
(***************************************************************************)
C31_SleepFlagFollowsDevice ==
  /\ [](isSleeping = DacAsleep)
  /\ [][ (ndac' = ndac + 1 /\ dac_op' = "wake") =>
           dac_words' = IF DacAsleep
                          THEN Append(dac_words, buildWord(DAC_NO_CHANGE, 0))
                          ELSE dac_words ]_vars

=============================================================================
